---------------------------- MODULE Spec2Model ----------------------------
(***************************************************************************)
(* A model of SLADE's ArchiveManager (src/src/Archive/ArchiveManager.cpp): *)
(* the registry of open archives, the parent/child links between archives  *)
(* opened from entries of other archives, the bookmark list, the resource  *)
(* manager's archive list, the archive_file table, the base resource       *)
(* archive and the base_resource_path table.                               *)
(*                                                                         *)
(* At most MaxInst Archive objects are alive at once in the registry and   *)
(* in the callers' hands; the base resource archive has a slot of its own. *)
(* Registry positions are 0-based as in the code: At(oa, i) is             *)
(* open_archives_[i].  The archive_file table is kept as the number of     *)
(* copies of each row.                                                     *)
(* Every operation is one atomic action (the manager is single-threaded    *)
(* and an operation runs to completion).  An operation is an operator on   *)
(* a record that holds the manager's members together with what the        *)
(* operation has returned (archive, ok), the events it has announced (ev), *)
(* the statements it has executed (sql) and the base resource archives it  *)
(* has destroyed (freed), in order.                                        *)
(***************************************************************************)
EXTENDS Integers, Sequences, FiniteSets, TLC

VARIABLES
    open_archives_,       \* vector<OpenArchive>: [archive, resource, open_children]
    bookmarks_,           \* vector<weak_ptr<ArchiveEntry>>
    auto_open_wads_root,  \* CVAR(Bool, auto_open_wads_root)
    held,                 \* the archives callers hold (opened with manage = false)
    resources,            \* the archives App::resources() holds
    archive_file,         \* the archive_file table
    ub,                   \* an operation indexed open_archives_ out of range
    base_resource,        \* CVAR(Int, base_resource)
    base_resource_archive_,  \* unique_ptr<Archive>, NoArchive when null
    base_resource_path    \* the base_resource_path table: rowid -> path

vars == <<open_archives_, bookmarks_, auto_open_wads_root, held, resources,
          archive_file, ub, base_resource, base_resource_archive_,
          base_resource_path>>

----------------------------------------------------------------------------
(* Bounds *)

\* Archive objects alive at once (registered or held by a caller).
MaxInst == 4
\* Length of the bookmark list.
MaxBookmarks == 2
\* Archives held by callers (opened with manage = false) at once.
MaxUnmanaged == 1
\* Largest rowid of the base_resource_path table.
MaxBasePaths == 3

----------------------------------------------------------------------------
(* The file system and the contents of files and entries *)

\* Paths a caller passes to openArchive / closeArchive.
Paths == {"a.pk3", "dir", "bad.bin", "cut.wad"}

\* Paths of files that more than one recognizer accepts, or that a
\* recognizer accepts which looks at the name of an entry too.
FormatPaths == {"fmt.pk3", "both.dat", "snd.bin"}

\* FileUtil::dirExists
dirExists(filename) == filename = "dir"

\* Paths a caller passes to addBaseResourcePath.
BasePaths == {"a.pk3", "base.wad", "bad.bin", "cut.wad", "dir"}

\* FileUtil::fileExists
fileExists(path) == path \in {"a.pk3", "base.wad", "bad.bin", "cut.wad"}

\* The content found at a path.
PathContent(filename) ==
    CASE filename = "a.pk3"   -> "pk3"
      [] filename = "dir"     -> "folder"
      [] filename = "cut.wad" -> "cutwad"
      [] filename = "base.wad" -> "wad"
      [] filename = "fmt.pk3"  -> "fmts"
      [] filename = "UNSAVED (wad)" -> "newwad"
      [] filename = "UNSAVED (zip)" -> "newzip"
      [] filename = "both.dat" -> "datlib"
      [] filename = "snd.bin"  -> "pod"
      [] OTHER                -> "junk"

\* The recognizers (isWadArchive, isZipArchive, ...) that accept a content.
Recognized(content) ==
    CASE content = "pk3"    -> {"zip"}
      [] content = "pk3in"  -> {"zip"}
      [] content = "wad"    -> {"wad"}
      [] content = "cutwad" -> {"wad"}
      [] content = "fmts"   -> {"zip"}
      [] content = "newwad" -> {"wad"}
      [] content = "newzip" -> {"zip"}
      [] content = "datlib" -> {"dat", "lib"}
      [] content = "pod"    -> {"pod"}
      [] OTHER              -> {}

\* Whether the codec's open() succeeds on a content.
ParseOK(content) ==
    content \in {"pk3", "pk3in", "wad", "folder", "fmts", "datlib", "pod"}

\* archive->rootDir()->allEntries(): the names of the root entries, in order.
RootEntries(content) ==
    CASE content = "pk3"    -> <<"e1.wad", "x.wad", "in.pk3">>
      [] content = "pk3in"  -> <<"deep.wad">>
      [] content = "folder" -> <<"e1.wad">>
      [] content = "wad"    -> <<"MAP01">>
      [] content = "fmts"   -> <<"both.dat", "snd.bin", "m.pod">>
      [] OTHER              -> <<>>

\* entry->data(): the content of an entry.
EntryContent(content, name) ==
    CASE name = "e1.wad"   -> "wad"
      [] name = "deep.wad" -> "wad"
      [] name = "x.wad"    -> "cutwad"
      [] name = "in.pk3"   -> "pk3in"
      [] name = "both.dat" -> "datlib"
      [] name = "snd.bin"  -> "pod"
      [] name = "m.pod"    -> "pod"
      [] OTHER             -> "junk"

\* entry->type()->id() once detected.
EntryTypeId(content, name) ==
    CASE name \in {"e1.wad", "deep.wad", "x.wad"} -> "wad"
      [] name = "in.pk3"                          -> "zip"
      [] OTHER                                    -> "unknown"

\* The directories below the root directory of a content, by their path.
SubDirs(content) ==
    IF content = "folder" THEN {"maps", "maps/sub", "gfx"} ELSE {}

\* The entries in the directories below the root, by their path.
SubDirEntries(content) ==
    IF content = "folder" THEN {"maps/m1", "maps/sub/m2", "gfx/g1"} ELSE {}

\* ArchiveDir::parent(): the path of the directory a directory is in; ""
\* is the root directory.
DirParent(dir) == IF dir = "maps/sub" THEN "maps" ELSE ""

\* entry->parentDir(): the path of the directory an entry is in.  The entry
\* of a directory (ArchiveDir::dirEntry) is in the directory's parent.
EntryDir(name) ==
    CASE name = "maps/m1"     -> "maps"
      [] name = "maps/sub/m2" -> "maps/sub"
      [] name = "gfx/g1"      -> "gfx"
      [] name = "maps/sub"    -> "maps"
      [] OTHER                -> ""

\* StrUtil::endsWithCI(entry->name(), ".pod")
endsWithCI_pod(name) == name \in {"m.pod"}

----------------------------------------------------------------------------
(* Format detection *)

\* The if/else chain of openArchive(string_view).
PathChain ==
    <<"wad", "zip", "res", "dat", "lib", "pak", "bsp", "grp", "rff", "gob",
      "lfd", "hog", "adat", "wad2", "wadj", "wolf", "gzip", "bzip2", "tar",
      "disk", "pod", "chasm_bin", "sin">>

\* The if/else chain of openArchive(ArchiveEntry*).
EntryChain ==
    <<"wad", "zip", "res", "lib", "dat", "pak", "bsp", "grp", "rff", "gob",
      "lfd", "hog", "adat", "wad2", "wadj", "wolf", "gzip", "bzip2", "tar",
      "disk", "pod", "chasm_bin", "sin">>

\* The first format of chain that is in matches, "" when there is none.
FirstMatch(chain, matches) ==
    IF \E k \in 1..Len(chain) : chain[k] \in matches
    THEN chain[CHOOSE k \in 1..Len(chain) :
                   /\ chain[k] \in matches
                   /\ \A j \in 1..(k - 1) : chain[j] \notin matches]
    ELSE ""

DetectPath(filename) == FirstMatch(PathChain, Recognized(PathContent(filename)))

DetectEntry(content, name) ==
    FirstMatch(EntryChain,
               IF endsWithCI_pod(name) THEN Recognized(content)
               ELSE Recognized(content) \ {"pod"})

----------------------------------------------------------------------------
(* Archive objects and entries *)

(***************************************************************************)
(* An Archive object is named by what it was opened from: the sequence of  *)
(* <<name, owner>> steps from a path down through the entries it is nested *)
(* in.  owner is 0 for an object the manager made for its registry and     *)
(* k >= 1 for the k-th object a caller holds (opened with manage = false), *)
(* so that two objects alive at once never have the same name.  <<>> is    *)
(* nullptr.  An entry is the pair <<archive, name>>.                       *)
(***************************************************************************)
NoArchive == <<>>

NoEntry == <<NoArchive, "">>

\* entry->parent(): the archive an entry belongs to.
EntryParent(entry) == entry[1]

\* Archive::parentEntry(): the entry the archive was opened from.
parentEntry(archive) ==
    IF Len(archive) > 1
    THEN <<SubSeq(archive, 1, Len(archive) - 1), archive[Len(archive)][1]>>
    ELSE NoEntry

\* The content an archive was parsed from.
RECURSIVE ArchiveContent(_)
ArchiveContent(archive) ==
    IF Len(archive) = 1 THEN PathContent(archive[1][1])
    ELSE EntryContent(ArchiveContent(SubSeq(archive, 1, Len(archive) - 1)),
                      archive[Len(archive)][1])

\* Archive::formatId(): the format of the codec the archive was made with.
formatId(archive) ==
    IF Len(archive) > 1
    THEN DetectEntry(ArchiveContent(archive), archive[Len(archive)][1])
    ELSE IF dirExists(archive[1][1]) THEN "folder" ELSE DetectPath(archive[1][1])

\* Archive::filename(): the path, or for an archive opened from an entry the
\* parent archive's filename, "/" and the entry's name.
RECURSIVE filename(_)
filename(archive) ==
    IF Len(archive) = 1 THEN archive[1][1]
    ELSE filename(SubSeq(archive, 1, Len(archive) - 1)) \o "/" \o archive[Len(archive)][1]

\* The entries of an archive.
EntriesOf(archive) ==
    {<<archive, RootEntries(ArchiveContent(archive))[k]>> :
        k \in 1..Len(RootEntries(ArchiveContent(archive)))}

\* An ArchiveDir is the pair <<archive, path>>.
\* archive->rootDir()
rootDir(archive) == <<archive, "">>

\* ArchiveDir::archive()
dirArchive(node) == node[1]

\* ArchiveDir::dirEntry(): the entry that stands for the directory.
dirEntry(node) == <<node[1], node[2]>>

\* ArchiveDir::parent()
dirParent(node) == <<node[1], DirParent(node[2])>>

\* ArchiveEntry::parentDir()
parentDir(entry) == <<EntryParent(entry), EntryDir(entry[2])>>

\* The directories of an archive, the root included.
DirsOf(archive) ==
    {<<archive, dir>> : dir \in SubDirs(ArchiveContent(archive)) \cup {""}}

\* The entries of an archive in all its directories, with the entries of
\* the directories below the root.
AllEntriesOf(archive) ==
    EntriesOf(archive)
        \cup {<<archive, name>> : name \in SubDirEntries(ArchiveContent(archive))
                                          \cup SubDirs(ArchiveContent(archive))}

\* std::make_shared for an archive opened from origin (a path, or an entry's
\* archive and name): the new object, distinct from every live one.
NewArchive(live, parent, name, manage) ==
    IF manage THEN Append(parent, <<name, 0>>)
    ELSE Append(parent, <<name, CHOOSE k \in 1..(Cardinality(live) + 1) :
                              /\ Append(parent, <<name, k>>) \notin live
                              /\ \A j \in 1..(k - 1) : Append(parent, <<name, j>>) \in live>>)

\* A weak_ptr<ArchiveEntry>; expired (and then without a target) once the
\* entry has been destroyed.
WeakEntry(entry) == [entry |-> entry, expired |-> FALSE]

\* weak_ptr::lock(): the entry, or nullptr.
Lock(bookmark) == IF bookmark.expired THEN NoEntry ELSE bookmark.entry

\* The entries of an archive are destroyed: weak references to them expire.
ExpiredEntry == [entry |-> NoEntry, expired |-> TRUE]

ExpireEntries(bm, archive) ==
    [a \in 1..Len(bm) |-> IF bm[a].entry[1] = archive THEN ExpiredEntry ELSE bm[a]]

----------------------------------------------------------------------------
(* The manager's state while an operation runs *)

\* open_archives_[index]
At(oa, index) == oa[index + 1]

\* vector::erase(begin() + index)
EraseAt(seq, index) ==
    [a \in 1..(Len(seq) - 1) |-> IF a <= index THEN seq[a] ELSE seq[a + 1]]

\* The archives of the registry.
Registered(oa) == {oa[a].archive : a \in 1..Len(oa)}

\* The Archive objects alive.
Live(st) == Registered(st.oa) \cup st.held

\* What a listener finds in the manager when an event reaches it.
Seen(st) == [oa |-> st.oa, bm |-> st.bm, res |-> st.res]

\* announce(event_name, mc): index is -1 for an event without data.  The
\* listeners run inside the call, so seen keeps what they find.
Announce(st, event_name, index) ==
    [st EXCEPT !.ev = Append(@, [name |-> event_name, index |-> index]),
               !.seen = Append(@, Seen(st))]

\* ArchiveManager::archiveIndex
archiveIndex(oa, archive) ==
    IF \E a \in 1..Len(oa) : oa[a].archive = archive
    THEN (CHOOSE a \in 1..Len(oa) :
             /\ oa[a].archive = archive
             /\ \A b \in 1..(a - 1) : oa[b].archive # archive) - 1
    ELSE -1

\* A lookup by file name that finds nothing.
getArchive_FindsNothing(st, file_name) == NoArchive

\* ArchiveManager::getArchive(string_view): the first archive with the
\* filename, nullptr when there is none.
getArchive(st, file_name) ==
    IF \E a \in 1..Len(st.oa) : filename(st.oa[a].archive) = file_name
    THEN st.oa[CHOOSE a \in 1..Len(st.oa) :
                  /\ filename(st.oa[a].archive) = file_name
                  /\ \A b \in 1..(a - 1) : filename(st.oa[b].archive) # file_name].archive
    ELSE NoArchive

\* ResourceManager::addArchive
ResourcesAdd(res, archive) == res \cup {archive}

\* ResourceManager::removeArchive
ResourcesRemove(res, archive) == res \ {archive}

\* App::resources().addArchive(archive), kept in the calls made.
resourcesAddArchive(st, archive) ==
    [st EXCEPT !.res = ResourcesAdd(@, archive),
               !.rcalls = Append(@, <<"addArchive", archive>>)]

\* App::resources().removeArchive(archive), kept in the calls made.
resourcesRemoveArchive(st, archive) ==
    [st EXCEPT !.res = ResourcesRemove(@, archive),
               !.rcalls = Append(@, <<"removeArchive", archive>>)]

\* The archive_file table: the number of copies of each row it holds.
NoRows == [r \in {} |-> 0]

\* The rows of a table.
Rows(db) == DOMAIN db

\* The UNIQUE constraint of archive_file: two rows conflict on their path.
ArchiveFileConflict(row, other) == row.path = other.path

\* An upsert that executes nothing.
addOrUpdateArchiveDB_NoExec(st, file_path, archive) == st

\* An upsert by INSERT INTO: the row is added whatever the table holds.
addOrUpdateArchiveDB_Insert(st, file_path, archive) ==
    LET row == [path      |-> file_path,
                md5       |-> IF formatId(archive) # "folder"
                              THEN PathContent(file_path) ELSE "",
                format_id |-> formatId(archive)]
    IN  [st EXCEPT !.db  = [r \in Rows(@) \cup {row} |->
                               IF r = row
                               THEN (IF row \in Rows(@) THEN @[row] ELSE 0) + 1
                               ELSE @[r]],
                   !.sql = Append(@, file_path)]

\* ArchiveManager::addOrUpdateArchiveDB.  REPLACE INTO archive_file: the
\* conflicting rows are deleted and the new row is inserted.
addOrUpdateArchiveDB(st, file_path, archive) ==
    LET row == [path      |-> file_path,
                md5       |-> IF formatId(archive) # "folder"
                              THEN PathContent(file_path) ELSE "",
                format_id |-> formatId(archive)]
    IN  [st EXCEPT !.db  = [r \in {o \in Rows(@) : ~ArchiveFileConflict(o, row)} \cup {row} |->
                               IF r = row THEN 1 ELSE @[r]],
                   !.sql = Append(@, file_path)]

----------------------------------------------------------------------------
(* Opening *)

RECURSIVE addArchive(_, _), openArchiveEntry(_, _, _, _), AutoOpenWads(_, _, _)

\* An announcement of archive_opened with the last position of the registry.
AnnounceOpened_LastPosition(st, archive, silent) ==
    IF silent THEN st
    ELSE Announce(st, "archive_opened", Len(st.oa) - 1)

\* The announcement of archive_opened with the archive's index, unless silent.
AnnounceOpened(st, archive, silent) ==
    IF silent THEN st
    ELSE Announce(st, "archive_opened", archiveIndex(st.oa, archive))

\* An auto-open that opens the wad entries without silencing them.
AutoOpenWads_NotSilent(st, archive, k) ==
    LET entries == RootEntries(ArchiveContent(archive)) IN
    IF k > Len(entries) \/ st.oom THEN st
    ELSE AutoOpenWads(
             IF EntryTypeId(ArchiveContent(archive), entries[k]) = "wad"
             THEN openArchiveEntry(st, <<archive, entries[k]>>, TRUE, FALSE)
             ELSE st,
             archive, k + 1)

\* The loop of addArchive over archive->rootDir()->allEntries(), from the
\* k-th entry on: every entry of type wad is opened, managed and silent.
AutoOpenWads(st, archive, k) ==
    LET entries == RootEntries(ArchiveContent(archive)) IN
    IF k > Len(entries) \/ st.oom THEN st
    ELSE AutoOpenWads(
             IF EntryTypeId(ArchiveContent(archive), entries[k]) = "wad"
             THEN openArchiveEntry(st, <<archive, entries[k]>>, TRUE, TRUE)
             ELSE st,
             archive, k + 1)

\* An add that puts the record at the front of the registry.
addArchive_AtFront(st, archive) ==
    LET n_archive == [archive |-> archive, resource |-> TRUE, open_children |-> <<>>]
    IN  resourcesAddArchive(Announce([st EXCEPT !.oa = <<n_archive>> \o @],
                                     "archive_added", -1), archive)

\* ArchiveManager::addArchive
addArchive(st, archive) ==
    IF archive = NoArchive THEN [st EXCEPT !.ok = FALSE]
    ELSE
        LET n_archive == [archive |-> archive, resource |-> TRUE, open_children |-> <<>>]
            s1 == [st EXCEPT !.oa = Append(@, n_archive)]
            s2 == Announce(s1, "archive_added", -1)
            s3 == resourcesAddArchive(s2, archive)
            s4 == IF formatId(archive) \in {"zip", "folder"} /\ st.auto
                  THEN AutoOpenWads(s3, archive, 1)
                  ELSE s3
        IN  [s4 EXCEPT !.ok = TRUE]

\* ArchiveManager::openArchive(ArchiveEntry*, bool, bool)
openArchiveEntry(st, entry, manage, silent) ==
    IF entry = NoEntry THEN [st EXCEPT !.archive = NoArchive]
    ELSE IF \E a \in 1..Len(st.oa) : parentEntry(st.oa[a].archive) = entry
    THEN \* the entry is already opened
        LET a == CHOOSE a \in 1..Len(st.oa) :
                     /\ parentEntry(st.oa[a].archive) = entry
                     /\ \A b \in 1..(a - 1) : parentEntry(st.oa[b].archive) # entry
        IN  [AnnounceOpened(st, st.oa[a].archive, silent) EXCEPT !.archive = st.oa[a].archive]
    ELSE
        LET content == EntryContent(ArchiveContent(EntryParent(entry)), entry[2]) IN
        IF DetectEntry(content, entry[2]) = "" THEN [st EXCEPT !.archive = NoArchive]
        ELSE IF Cardinality(Live(st)) >= MaxInst THEN [st EXCEPT !.oom = TRUE]
        ELSE IF ~ParseOK(content) THEN [st EXCEPT !.archive = NoArchive]
        ELSE
            LET new_archive == NewArchive(Live(st), EntryParent(entry), entry[2], manage) IN
            IF manage
            THEN
                LET index_parent == IF EntryParent(entry) # NoArchive
                                    THEN archiveIndex(st.oa, EntryParent(entry))
                                    ELSE -1
                    s2 == IF index_parent >= 0
                          THEN [st EXCEPT !.oa[index_parent + 1].open_children =
                                              Append(@, new_archive)]
                          ELSE st
                    s3 == addArchive(s2, new_archive)
                IN  [AnnounceOpened(s3, new_archive, silent) EXCEPT !.archive = new_archive]
            ELSE [st EXCEPT !.held = @ \cup {new_archive}, !.archive = new_archive]

\* std::make_shared for newArchive: an empty archive named UNSAVED (format),
\* distinct from every live one; the owner of the k-th is -(k + 1).
UnsavedArchive(live, format) ==
    LET name == "UNSAVED (" \o format \o ")" IN
    <<<<name, CHOOSE k \in -(Cardinality(live) + 2)..-2 :
                 /\ <<<<name, k>>>> \notin live
                 /\ \A j \in (k + 1)..-2 : <<<<name, j>>>> \in live>>>>

\* ArchiveManager::newArchive
newArchive(st, format) ==
    IF format \notin {"wad", "zip"} THEN [st EXCEPT !.archive = NoArchive]
    ELSE IF Cardinality(Live(st)) >= MaxInst THEN [st EXCEPT !.oom = TRUE]
    ELSE LET new_archive == UnsavedArchive(Live(st), format) IN
         [addArchive(st, new_archive) EXCEPT !.archive = new_archive]

\* An open from a path that registers the archive before its data is parsed.
OpenNewFromPath_AddsBeforeParse(st, file_name, manage, silent) ==
    IF Cardinality(Live(st)) >= MaxInst THEN [st EXCEPT !.oom = TRUE]
    ELSE
        LET new_archive == NewArchive(Live(st), <<>>, file_name, manage)
            s2 == IF manage THEN addArchive(st, new_archive) ELSE st
        IN
        IF ~ParseOK(PathContent(file_name)) THEN [s2 EXCEPT !.archive = NoArchive]
        ELSE IF manage
        THEN
            LET s3 == addOrUpdateArchiveDB(s2, file_name, new_archive)
            IN  [AnnounceOpened(s3, new_archive, silent) EXCEPT !.archive = new_archive]
        ELSE [st EXCEPT !.held = @ \cup {new_archive}, !.archive = new_archive]

\* An open from a path that registers the archive whatever manage says.
OpenNewFromPath_IgnoresManage(st, file_name, manage, silent) ==
    IF Cardinality(Live(st)) >= MaxInst THEN [st EXCEPT !.oom = TRUE]
    ELSE IF ~ParseOK(PathContent(file_name)) THEN [st EXCEPT !.archive = NoArchive]
    ELSE
        LET new_archive == NewArchive(Live(st), <<>>, file_name, manage)
            s2 == addArchive(st, new_archive)
            s3 == addOrUpdateArchiveDB(s2, file_name, new_archive)
        IN  [AnnounceOpened(s3, new_archive, silent) EXCEPT !.archive = new_archive]

\* The part openArchive(string_view) and openDirArchive share: the archive
\* is made, opened and, if managed, added.
OpenNewFromPath(st, file_name, manage, silent) ==
    IF Cardinality(Live(st)) >= MaxInst THEN [st EXCEPT !.oom = TRUE]
    ELSE IF ~ParseOK(PathContent(file_name)) THEN [st EXCEPT !.archive = NoArchive]
    ELSE
        LET new_archive == NewArchive(Live(st), <<>>, file_name, manage) IN
        IF manage
        THEN
            LET s2 == addArchive(st, new_archive)
                s3 == addOrUpdateArchiveDB(s2, file_name, new_archive)
            IN  [AnnounceOpened(s3, new_archive, silent) EXCEPT !.archive = new_archive]
        ELSE [st EXCEPT !.held = @ \cup {new_archive}, !.archive = new_archive]

\* ArchiveManager::openDirArchive
openDirArchive(st, dir, manage, silent) ==
    LET new_archive == getArchive(st, dir) IN
    IF new_archive # NoArchive
    THEN [AnnounceOpened(st, new_archive, silent) EXCEPT !.archive = new_archive]
    ELSE OpenNewFromPath(st, dir, manage, silent)

\* ArchiveManager::openArchive(string_view, bool, bool)
openArchive(st, file_name, manage, silent) ==
    IF dirExists(file_name) THEN openDirArchive(st, file_name, manage, silent)
    ELSE
        LET new_archive == getArchive(st, file_name) IN
        IF new_archive # NoArchive
        THEN [AnnounceOpened(st, new_archive, silent) EXCEPT !.archive = new_archive]
        ELSE IF DetectPath(file_name) = "" THEN [st EXCEPT !.archive = NoArchive]
        ELSE OpenNewFromPath(st, file_name, manage, silent)


----------------------------------------------------------------------------
(* Bookmarks *)

\* A pruning that deletes no bookmark.
deleteBookmarksInArchive_KeepsAll(st, archive) == [st EXCEPT !.ok = FALSE]

\* ArchiveManager::deleteBookmarksInArchive: the bookmarks that are expired
\* or whose entry belongs to archive are erased; bookmarks_changed is
\* announced when one was.
deleteBookmarksInArchive(st, archive) ==
    LET kept == SelectSeq(st.bm, LAMBDA bookmark :
                    ~(Lock(bookmark) = NoEntry \/ EntryParent(Lock(bookmark)) = archive))
    IN  IF Len(kept) < Len(st.bm)
        THEN [Announce([st EXCEPT !.bm = kept], "bookmarks_changed", -1) EXCEPT !.ok = TRUE]
        ELSE [st EXCEPT !.ok = FALSE]

\* An add that does not look for the entry in the list.
addBookmark_Appends(st, entry) ==
    Announce([st EXCEPT !.bm = Append(@, WeakEntry(entry))], "bookmarks_changed", -1)

\* ArchiveManager::addBookmark
addBookmark(st, entry) ==
    IF \E a \in 1..Len(st.bm) : Lock(st.bm[a]) = entry THEN st
    ELSE Announce([st EXCEPT !.bm = Append(@, WeakEntry(entry))], "bookmarks_changed", -1)

\* ArchiveManager::deleteBookmark(ArchiveEntry*)
deleteBookmark(st, entry) ==
    IF \E a \in 1..Len(st.bm) : Lock(st.bm[a]) = entry
    THEN LET a == CHOOSE a \in 1..Len(st.bm) :
                      /\ Lock(st.bm[a]) = entry
                      /\ \A b \in 1..(a - 1) : Lock(st.bm[b]) # entry
         IN  [Announce([st EXCEPT !.bm = EraseAt(@, a - 1)], "bookmarks_changed", -1)
                 EXCEPT !.ok = TRUE]
    ELSE [st EXCEPT !.ok = FALSE]

\* ArchiveManager::deleteBookmark(unsigned)
deleteBookmarkAt(st, index) ==
    IF index >= Len(st.bm) THEN [st EXCEPT !.ok = FALSE]
    ELSE [Announce([st EXCEPT !.bm = EraseAt(@, index)], "bookmarks_changed", -1)
             EXCEPT !.ok = TRUE]

\* A walk that looks at the entry's own directory only.
WithinDir_ParentOnly(anode, node, archive) == anode = node

\* The while loop of deleteBookmarksInDir: the walk from anode up to the
\* root directory of archive finds node.
RECURSIVE WithinDir(_, _, _)
WithinDir(anode, node, archive) ==
    IF anode = rootDir(archive) THEN FALSE
    ELSE IF anode = node THEN TRUE
    ELSE WithinDir(dirParent(anode), node, archive)

\* A pruning of a directory that keeps the bookmarks that do not lock.
deleteBookmarksInDir_KeepsExpired(st, node) ==
    LET archive == dirArchive(node)
        s1 == deleteBookmark(st, dirEntry(node))
        remove(weak) ==
            LET bookmark == Lock(weak) IN
            IF bookmark = NoEntry THEN FALSE
            ELSE IF EntryParent(bookmark) = archive
            THEN WithinDir(parentDir(bookmark), node, archive)
            ELSE FALSE
        kept == SelectSeq(s1.bm, LAMBDA weak : ~remove(weak))
        removed == s1.ok \/ Len(kept) < Len(s1.bm)
    IN  IF removed
        THEN [Announce([s1 EXCEPT !.bm = kept], "bookmarks_changed", -1) EXCEPT !.ok = TRUE]
        ELSE [s1 EXCEPT !.ok = FALSE]

\* ArchiveManager::deleteBookmarksInDir
deleteBookmarksInDir(st, node) ==
    LET archive == dirArchive(node)
        s1 == deleteBookmark(st, dirEntry(node))
        remove(weak) ==
            LET bookmark == Lock(weak) IN
            IF bookmark = NoEntry THEN TRUE
            ELSE IF EntryParent(bookmark) = archive
            THEN WithinDir(parentDir(bookmark), node, archive)
            ELSE FALSE
        kept == SelectSeq(s1.bm, LAMBDA weak : ~remove(weak))
        removed == s1.ok \/ Len(kept) < Len(s1.bm)
    IN  IF removed
        THEN [Announce([s1 EXCEPT !.bm = kept], "bookmarks_changed", -1) EXCEPT !.ok = TRUE]
        ELSE [s1 EXCEPT !.ok = FALSE]

----------------------------------------------------------------------------
(* Closing *)

RECURSIVE closeArchive(_, _), CloseChildren(_, _, _), CloseValid(_, _),
          CloseFromResources(_, _), CloseFromBookmarks(_, _)

\* A close that walks the child list after clearing it, so closes no child.
CloseChildren_OfClearedList(st, open_children, k) == st

\* The loop of closeArchive(int) over the copy of open_children, from the
\* k-th child on.
CloseChildren(st, open_children, k) ==
    IF k > Len(open_children) \/ st.ub THEN st
    ELSE LET ci == archiveIndex(st.oa, open_children[k]) IN
         CloseChildren(IF ci >= 0 THEN closeArchive(st, ci) ELSE st, open_children, k + 1)

\* A close that leaves the parent's child links as they are.
RemoveFromParent_KeepsLink(st, index) == st

\* A close that empties the parent's child links.
RemoveFromParent_ClearsLinks(st, index) ==
    LET pi == archiveIndex(st.oa, EntryParent(parentEntry(At(st.oa, index).archive)))
    IN  IF pi >= 0 THEN [st EXCEPT !.oa[pi + 1].open_children = <<>>] ELSE st

\* The part of closeArchive(int) that removes the archive at index from its
\* parent's open_children.
RemoveFromParent(st, index) ==
    LET archive == At(st.oa, index).archive
        parent  == parentEntry(archive)
        gp      == EntryParent(parent)
        pi      == archiveIndex(st.oa, gp)
    IN  IF parent # NoEntry /\ gp # NoArchive /\ pi >= 0
        THEN LET children == At(st.oa, pi).open_children IN
             IF \E c \in 1..Len(children) : children[c] = archive
             THEN [st EXCEPT !.oa[pi + 1].open_children =
                      EraseAt(children,
                              (CHOOSE c \in 1..Len(children) :
                                  /\ children[c] = archive
                                  /\ \A d \in 1..(c - 1) : children[d] # archive) - 1)]
             ELSE st
        ELSE st

\* A close that announces archive_closed while the record is still in the
\* registry.
CloseValid_ClosedBeforeErase(st, index) ==
    LET s1 == Announce(st, "archive_closing", index)
        s2 == deleteBookmarksInArchive(s1, At(s1.oa, index).archive)
        s3 == resourcesRemoveArchive(s2, At(s2.oa, index).archive)
        open_children == At(s3.oa, index).open_children
        s4 == [s3 EXCEPT !.oa[index + 1].open_children = <<>>]
        s5 == CloseChildren(s4, open_children, 1)
    IN
    IF s5.ub \/ index >= Len(s5.oa) THEN [s5 EXCEPT !.ub = TRUE]
    ELSE
        LET s6 == Announce(RemoveFromParent(s5, index), "archive_closed", index)
        IN  [s6 EXCEPT !.bm = ExpireEntries(@, At(s6.oa, index).archive),
                       !.oa = EraseAt(@, index), !.ok = TRUE]

\* The body of closeArchive(int) for a valid index.  archive->close() and
\* the erase from open_archives_, which drops the last owner, destroy the
\* archive and its entries.
CloseValid(st, index) ==
    CloseFromBookmarks(Announce(st, "archive_closing", index), index)

\* closeArchive(int) from the deletion of the archive's bookmarks on.  Every
\* open_archives_[index] is an access out of range when the registry has
\* become too short for index.
CloseFromBookmarks(st, index) ==
    IF st.ub \/ index >= Len(st.oa) THEN [st EXCEPT !.ub = TRUE]
    ELSE CloseFromResources(deleteBookmarksInArchive(st, At(st.oa, index).archive), index)

\* closeArchive(int) from the removal from the resource manager on.
CloseFromResources(st, index) ==
    IF st.ub \/ index >= Len(st.oa) THEN [st EXCEPT !.ub = TRUE]
    ELSE
    LET s3 == resourcesRemoveArchive(st, At(st.oa, index).archive)
        open_children == At(s3.oa, index).open_children
        s4 == [s3 EXCEPT !.oa[index + 1].open_children = <<>>]
        s5 == CloseChildren(s4, open_children, 1)
    IN
    IF s5.ub \/ index >= Len(s5.oa) THEN [s5 EXCEPT !.ub = TRUE]
    ELSE
        LET s6 == RemoveFromParent(s5, index)
            s7 == [s6 EXCEPT !.bm = ExpireEntries(@, At(s6.oa, index).archive),
                             !.oa = EraseAt(@, index)]
        IN  [Announce(s7, "archive_closed", index) EXCEPT !.ok = TRUE]

\* A close that announces archive_closing before it validates the index.
closeArchive_AnnouncesFirst(st, index) ==
    IF index < 0 \/ index >= Len(st.oa)
    THEN [Announce(st, "archive_closing", index) EXCEPT !.ok = FALSE]
    ELSE CloseValid(st, index)

\* ArchiveManager::closeArchive(int)
closeArchive(st, index) ==
    IF index < 0 \/ index >= Len(st.oa) THEN [st EXCEPT !.ok = FALSE]
    ELSE CloseValid(st, index)

\* ArchiveManager::closeArchive(string_view)
closeArchiveFilename(st, file_name) ==
    IF \E a \in 0..(Len(st.oa) - 1) : filename(At(st.oa, a).archive) = file_name
    THEN closeArchive(st, CHOOSE a \in 0..(Len(st.oa) - 1) :
                              /\ filename(At(st.oa, a).archive) = file_name
                              /\ \A b \in 0..(a - 1) : filename(At(st.oa, b).archive) # file_name)
    ELSE [st EXCEPT !.ok = FALSE]

\* ArchiveManager::closeArchive(Archive*)
closeArchivePtr(st, archive) ==
    IF \E a \in 0..(Len(st.oa) - 1) : At(st.oa, a).archive = archive
    THEN closeArchive(st, CHOOSE a \in 0..(Len(st.oa) - 1) :
                              /\ At(st.oa, a).archive = archive
                              /\ \A b \in 0..(a - 1) : At(st.oa, b).archive # archive)
    ELSE [st EXCEPT !.ok = FALSE]

\* ArchiveManager::closeArchive(int) with a listener that, at the first
\* event_name (archive_closing or bookmarks_changed) the call announces,
\* calls closeArchive(target) before it returns to the announcing call.
closeArchiveObserved(st, index, event_name, target) ==
    IF index < 0 \/ index >= Len(st.oa) THEN [st EXCEPT !.ok = FALSE]
    ELSE
        LET s1 == Announce(st, "archive_closing", index) IN
        IF event_name = "archive_closing"
        THEN CloseFromBookmarks(closeArchivePtr(s1, target), index)
        ELSE LET s2 == deleteBookmarksInArchive(s1, At(s1.oa, index).archive) IN
             CloseFromResources(IF s2.ok THEN closeArchivePtr(s2, target) ELSE s2, index)

\* The archives a record links to as its children, without theirs.
getDependentArchives_ChildrenOnly(st, archive) ==
    LET ai == archiveIndex(st.oa, archive) IN
    IF ai = -1 THEN [vec |-> <<>>, ub |-> TRUE]
    ELSE [vec |-> SelectSeq(At(st.oa, ai).open_children,
                            LAMBDA child : child \in Live(st)),
          ub |-> FALSE]

RECURSIVE getDependentArchivesInternal(_, _, _), DependentChildren(_, _, _, _)

\* ArchiveManager::getDependentArchivesInternal: the record is looked up by
\* archiveIndex and read without a check of the position (ub when the
\* archive is not registered); acc is the vector so far.
getDependentArchivesInternal(st, archive, acc) ==
    LET ai == archiveIndex(st.oa, archive) IN
    IF acc.ub THEN acc
    ELSE IF ai = -1 THEN [acc EXCEPT !.ub = TRUE]
    ELSE DependentChildren(st, At(st.oa, ai).open_children, 1, acc)

\* The loop of getDependentArchivesInternal over open_children, from the
\* c-th child on: a child whose weak pointer locks is pushed and then its
\* own children are.
DependentChildren(st, open_children, c, acc) ==
    IF c > Len(open_children) \/ acc.ub THEN acc
    ELSE LET child == open_children[c] IN
         DependentChildren(st, open_children, c + 1,
             IF child \in Live(st)
             THEN getDependentArchivesInternal(st, child,
                      [acc EXCEPT !.vec = Append(@, child)])
             ELSE acc)

\* ArchiveManager::getDependentArchives
getDependentArchives(st, archive) ==
    getDependentArchivesInternal(st, archive, [vec |-> <<>>, ub |-> FALSE])

\* A closeAll that closes the first archive and stops.
closeAll_FirstOnly(st) == closeArchive(st, 0)

\* ArchiveManager::closeAll: while the registry is not empty, closeArchive(0).
RECURSIVE closeAll(_)
closeAll(st) ==
    IF st.oa = <<>> \/ st.ub THEN st
    ELSE closeAll(closeArchive(st, 0))

----------------------------------------------------------------------------
(* Announcements of the archives *)

\* A handler that announces position 0 whatever the archive's position is.
onAnnouncement_FirstPosition(st, announcer, event_name) ==
    IF archiveIndex(st.oa, announcer) >= 0
    THEN Announce(st, IF event_name = "saved" THEN "archive_saved" ELSE "archive_modified", 0)
    ELSE st

\* A handler that does not look whether the announcer is in the registry.
onAnnouncement_AnyAnnouncer(st, announcer, event_name) ==
    LET index == archiveIndex(st.oa, announcer)
        s1 == IF event_name = "saved"
              THEN Announce(addOrUpdateArchiveDB(st, filename(announcer), announcer),
                            "archive_saved", index)
              ELSE st
    IN  IF event_name \in {"modified", "entry_modified"}
        THEN Announce(s1, "archive_modified", index)
        ELSE s1

\* ArchiveManager::onAnnouncement
onAnnouncement(st, announcer, event_name) ==
    LET index == archiveIndex(st.oa, announcer) IN
    IF index >= 0
    THEN LET s1 == IF event_name = "saved"
                   THEN Announce(addOrUpdateArchiveDB(st, filename(announcer), announcer),
                                 "archive_saved", index)
                   ELSE st
         IN  IF event_name \in {"modified", "entry_modified"}
             THEN Announce(s1, "archive_modified", index)
             ELSE s1
    ELSE st

----------------------------------------------------------------------------
(* Resource archives *)

\* A setter that calls the resource manager whatever the flag was.
setArchiveResource_AlwaysCalls(st, archive, resource) ==
    LET index == archiveIndex(st.oa, archive) IN
    IF index >= 0
    THEN LET s1 == [st EXCEPT !.oa[index + 1].resource = resource]
         IN  IF resource THEN resourcesAddArchive(s1, archive)
             ELSE resourcesRemoveArchive(s1, archive)
    ELSE st

\* ArchiveManager::setArchiveResource
setArchiveResource(st, archive, resource) ==
    LET index == archiveIndex(st.oa, archive) IN
    IF index >= 0
    THEN LET was_resource == At(st.oa, index).resource
             s1 == [st EXCEPT !.oa[index + 1].resource = resource]
         IN  IF resource /\ ~was_resource
             THEN resourcesAddArchive(s1, archive)
             ELSE IF ~resource /\ was_resource
             THEN resourcesRemoveArchive(s1, archive)
             ELSE s1
    ELSE st

\* Archive::SearchOptions: the name and the type to match, "" for any.
SearchOptions(match_name, match_type) ==
    [match_name |-> match_name, match_type |-> match_type]

\* Whether the root entry of a name matches the options.
Matches(archive, name, options) ==
    /\ options.match_name = "" \/ name = options.match_name
    /\ options.match_type = ""
          \/ EntryTypeId(ArchiveContent(archive), name) = options.match_type

\* archive->entry(name): the root entry with the name, or nullptr.
archiveEntry(archive, name) ==
    IF \E k \in 1..Len(RootEntries(ArchiveContent(archive))) :
           RootEntries(ArchiveContent(archive))[k] = name
    THEN <<archive, name>>
    ELSE NoEntry

\* archive->findAll(options): the matching entries, in the archive's order.
findAll(archive, options) ==
    LET entries == RootEntries(ArchiveContent(archive))
        matching == SelectSeq(entries, LAMBDA name : Matches(archive, name, options))
    IN  [k \in 1..Len(matching) |-> <<archive, matching[k]>>]

\* archive->findLast(options): the last matching entry, or nullptr.
findLast(archive, options) ==
    LET vec == findAll(archive, options) IN
    IF Len(vec) = 0 THEN NoEntry ELSE vec[Len(vec)]

\* A search that goes through every open archive but ignore.
ResourceArchives_AllOpen(st, ignore) ==
    LET searched == SelectSeq(st.oa, LAMBDA open_archive : open_archive.archive # ignore)
    IN  [k \in 1..Len(searched) |-> searched[k].archive]

\* A search through every resource record, ignore included.
ResourceArchives_IgnoreIncluded(st, ignore) ==
    LET searched == SelectSeq(st.oa, LAMBDA open_archive : open_archive.resource)
    IN  [k \in 1..Len(searched) |-> searched[k].archive]

\* The open archives the three searches go through, in the order of
\* open_archives_: those that are a resource and are not ignore.
ResourceArchives(st, ignore) ==
    LET searched == SelectSeq(st.oa, LAMBDA open_archive :
                        open_archive.resource /\ open_archive.archive # ignore)
    IN  [k \in 1..Len(searched) |-> searched[k].archive]

\* A search that keeps going after a match and returns the last one.
FirstEntry_Last(entries) ==
    IF \E k \in 1..Len(entries) : entries[k] # NoEntry
    THEN entries[CHOOSE k \in 1..Len(entries) :
                     /\ entries[k] # NoEntry
                     /\ \A j \in (k + 1)..Len(entries) : entries[j] = NoEntry]
    ELSE NoEntry

\* The return inside the loop: the first entry found, nullptr when the
\* loop ends without one.
FirstEntry(entries) ==
    IF \E k \in 1..Len(entries) : entries[k] # NoEntry
    THEN entries[CHOOSE k \in 1..Len(entries) :
                     /\ entries[k] # NoEntry
                     /\ \A j \in 1..(k - 1) : entries[j] = NoEntry]
    ELSE NoEntry

\* ArchiveManager::getResourceEntry
getResourceEntry(st, name, ignore) ==
    LET archives == ResourceArchives(st, ignore)
        entry == FirstEntry([k \in 1..Len(archives) |-> archiveEntry(archives[k], name)])
    IN  IF entry # NoEntry THEN entry
        ELSE IF st.bra # NoArchive THEN archiveEntry(st.bra, name)
        ELSE NoEntry

\* ArchiveManager::findResourceEntry
findResourceEntry(st, options, ignore) ==
    LET archives == ResourceArchives(st, ignore)
        entry == FirstEntry([k \in 1..Len(archives) |-> findLast(archives[k], options)])
    IN  IF entry # NoEntry THEN entry
        ELSE IF st.bra # NoArchive THEN findLast(st.bra, options)
        ELSE NoEntry

\* The concatenation of the vectors found in the archives from the k-th on.
RECURSIVE InsertAll(_, _, _)
InsertAll(archives, options, k) ==
    IF k > Len(archives) THEN <<>>
    ELSE findAll(archives[k], options) \o InsertAll(archives, options, k + 1)

\* A bulk search that searches the base resource archive last.
findAllResourceEntries_BaseLast(st, options, ignore) ==
    InsertAll(ResourceArchives(st, ignore), options, 1)
        \o (IF st.bra # NoArchive THEN findAll(st.bra, options) ELSE <<>>)

\* ArchiveManager::findAllResourceEntries
findAllResourceEntries(st, options, ignore) ==
    (IF st.bra # NoArchive THEN findAll(st.bra, options) ELSE <<>>)
        \o InsertAll(ResourceArchives(st, ignore), options, 1)

----------------------------------------------------------------------------
(* The base resource archive *)

\* The base_resource_path table, empty.
NoPaths == [rowid \in {} |-> ""]

\* std::make_unique for the base resource archive of a path: an object of
\* its own, in neither the registry nor a caller's hands.
BaseArchive(path) == <<<<path, -1>>>>

\* INSERT OR IGNORE: the new row is ignored when the path is in the table.
BasePathConflict(brp, path) == \E rowid \in DOMAIN brp : brp[rowid] = path

\* The rowid of an inserted row: one more than the largest in the table.
NextRowid(brp) ==
    IF DOMAIN brp = {} THEN 1
    ELSE (CHOOSE rowid \in DOMAIN brp : \A other \in DOMAIN brp : other <= rowid) + 1

\* ArchiveManager::getBaseResourcePath: SELECT path WHERE rowid = index + 1,
\* the empty string when there is no such row.
getBaseResourcePath(brp, index) ==
    IF (index + 1) \in DOMAIN brp THEN brp[index + 1] ELSE ""

\* ArchiveManager::addBaseResourcePath
addBaseResourcePath(st, path) ==
    IF ~fileExists(path) THEN [st EXCEPT !.ok = FALSE]
    ELSE IF BasePathConflict(st.brp, path) THEN [st EXCEPT !.ok = FALSE]
    ELSE
        LET rowid == NextRowid(st.brp)
            s1 == [st EXCEPT !.brp = [r \in DOMAIN @ \cup {rowid} |->
                                         IF r = rowid THEN path ELSE @[r]]]
        IN  [Announce(s1, "base_resource_path_added", -1) EXCEPT !.ok = TRUE]

\* The part of openBaseResource after the check for the active index: the
\* current base resource archive is closed and the one at index is opened.
OpenDifferentBase(st, index) ==
    LET s1 == IF st.bra # NoArchive
              THEN [resourcesRemoveArchive(st, st.bra)
                       EXCEPT !.bra = NoArchive, !.freed = Append(@, st.bra)]
              ELSE st
        path == IF index >= 0 THEN getBaseResourcePath(s1.brp, index) ELSE ""
    IN
    IF path = ""
    THEN [Announce([s1 EXCEPT !.br = -1], "base_resource_changed", -1)
             EXCEPT !.ok = FALSE]
    ELSE IF ~("wad" \in Recognized(PathContent(path))
                 \/ "zip" \in Recognized(PathContent(path)))
    THEN [s1 EXCEPT !.ok = FALSE]
    ELSE IF ParseOK(PathContent(path))
    THEN [Announce(resourcesAddArchive([s1 EXCEPT !.br = index,
                                                  !.bra = BaseArchive(path)],
                                       BaseArchive(path)),
                   "base_resource_changed", -1) EXCEPT !.ok = TRUE]
    ELSE [Announce(s1, "base_resource_changed", -1) EXCEPT !.ok = FALSE]

\* An open that does not check whether the index is the active one.
openBaseResource_AlwaysOpens(st, index) == OpenDifferentBase(st, index)

\* ArchiveManager::openBaseResource
openBaseResource(st, index) ==
    IF st.bra # NoArchive /\ st.br = index THEN [st EXCEPT !.ok = TRUE]
    ELSE OpenDifferentBase(st, index)

\* A removal that only deletes the row.
removeBaseResourcePath_OnlyDeletes(st, index) ==
    IF (index + 1) \in DOMAIN st.brp
    THEN Announce([st EXCEPT !.brp = [r \in DOMAIN @ \ {index + 1} |-> @[r]]],
                  "base_resource_path_removed", -1)
    ELSE st

\* ArchiveManager::removeBaseResourcePath: DELETE WHERE rowid = index + 1.
removeBaseResourcePath(st, index) ==
    LET s1 == IF index = st.br THEN openBaseResource(st, -1)
              ELSE IF st.br > index THEN [st EXCEPT !.br = @ - 1]
              ELSE st
    IN  IF (index + 1) \in DOMAIN s1.brp
        THEN Announce([s1 EXCEPT !.brp = [r \in DOMAIN @ \ {index + 1} |-> @[r]]],
                      "base_resource_path_removed", -1)
        ELSE s1

----------------------------------------------------------------------------
(* The state machine *)

\* The manager's state as an operation starts: nothing announced, no
\* statement executed, nothing returned yet.
Start ==
    [oa |-> open_archives_, bm |-> bookmarks_, held |-> held, res |-> resources,
     db |-> archive_file, auto |-> auto_open_wads_root, ev |-> <<>>, sql |-> <<>>,
     archive |-> NoArchive, ok |-> TRUE, oom |-> FALSE, ub |-> ub,
     br |-> base_resource, bra |-> base_resource_archive_,
     brp |-> base_resource_path, freed |-> <<>>, seen |-> <<>>, rcalls |-> <<>>]

\* The state an operation leaves, when there was room for the archives it
\* made.
Finish(st) ==
    /\ ~st.oom
    /\ Cardinality(st.held) <= MaxUnmanaged
    /\ open_archives_' = st.oa
    /\ bookmarks_' = st.bm
    /\ held' = st.held
    /\ resources' = st.res
    /\ archive_file' = st.db
    /\ ub' = st.ub
    /\ base_resource' = st.br
    /\ base_resource_archive_' = st.bra
    /\ base_resource_path' = st.brp
    /\ UNCHANGED auto_open_wads_root

RegisteredArchives == Registered(open_archives_)

LiveArchives == RegisteredArchives \cup held

\* The entries callers pass: the entries of the live archives.
LiveEntries == UNION {EntriesOf(archive) : archive \in LiveArchives}

\* The entries callers pass to openArchive.
OpenEntries == LiveEntries \cup {NoEntry}

\* The file names callers pass to closeArchive.
CloseFilenames == Paths \cup {filename(a) : a \in RegisteredArchives}

\* The archives callers pass to closeArchive.
ClosePtrs == LiveArchives \cup {NoArchive}

\* The positions callers pass to closeArchive.
CloseIndexes == -1..Len(open_archives_)

\* The events an archive announces.
ArchiveEvents == {"saved", "modified", "entry_modified"}

Init ==
    /\ open_archives_ = <<>>
    /\ bookmarks_ = <<>>
    /\ auto_open_wads_root = FALSE
    /\ held = {}
    /\ resources = {}
    /\ archive_file = NoRows
    /\ ub = FALSE
    /\ base_resource = -1
    /\ base_resource_archive_ = NoArchive
    /\ base_resource_path = NoPaths

\* openArchive(filename, manage, silent), with manage drawn from manages.
OpenArchiveBy(manages) ==
    \E file_name \in Paths, manage \in manages, silent \in BOOLEAN :
        Finish(openArchive(Start, file_name, manage, silent))

\* openArchive(entry, manage, silent), with manage drawn from manages.
OpenArchiveEntryBy(manages) ==
    \E entry \in OpenEntries, manage \in manages, silent \in BOOLEAN :
        Finish(openArchiveEntry(Start, entry, manage, silent))

OpenArchive == OpenArchiveBy(BOOLEAN)

OpenArchiveEntry == OpenArchiveEntryBy(BOOLEAN)

OpenArchiveManaged == OpenArchiveBy({TRUE})

\* A caller that holds no archive opens one from a path with manage = false.
OpenArchiveUnmanagedAlone ==
    /\ held = {}
    /\ OpenArchiveBy({FALSE})

OpenArchiveEntryManaged == OpenArchiveEntryBy({TRUE})

\* newArchive(format)
CallNewArchive ==
    \E format \in {"wad", "zip", "grp"} : Finish(newArchive(Start, format))

\* The events of closeArchive a listener answers with a close.
ObservedEvents == {"archive_closing", "bookmarks_changed"}

\* closeArchive(index) while a listener closes another registered archive.
CloseArchiveObserved ==
    /\ ~ub
    /\ \E index \in CloseIndexes, event_name \in ObservedEvents,
          target \in RegisteredArchives :
           /\ index >= 0 /\ index < Len(open_archives_)
           /\ target # At(open_archives_, index).archive
           /\ Finish(closeArchiveObserved(Start, index, event_name, target))

\* closeAll()
CloseAll == Finish(closeAll(Start))

\* openArchive(filename, true, silent) of a file of FormatPaths.
OpenFormatFile ==
    \E file_name \in FormatPaths, silent \in BOOLEAN :
        Finish(openArchive(Start, file_name, TRUE, silent))

CloseArchive == \E index \in CloseIndexes : Finish(closeArchive(Start, index))

CloseArchiveFilename ==
    \E file_name \in CloseFilenames : Finish(closeArchiveFilename(Start, file_name))

CloseArchivePtr == \E archive \in ClosePtrs : Finish(closeArchivePtr(Start, archive))

AddBookmark ==
    \E entry \in LiveEntries :
        LET st == addBookmark(Start, entry) IN
        /\ Len(st.bm) <= MaxBookmarks
        /\ Finish(st)

\* The entries callers bookmark and delete from the bookmarks.
AllLiveEntries == UNION {AllEntriesOf(archive) : archive \in LiveArchives}

\* The directories callers pass to deleteBookmarksInDir.
LiveDirs == UNION {DirsOf(archive) : archive \in LiveArchives}

\* addBookmark(entry), of an entry in any directory.
AddBookmarkInDirs ==
    \E entry \in AllLiveEntries :
        LET st == addBookmark(Start, entry) IN
        /\ Len(st.bm) <= MaxBookmarks
        /\ Finish(st)

\* deleteBookmark(entry)
DeleteBookmark ==
    \E entry \in AllLiveEntries \cup {NoEntry} : Finish(deleteBookmark(Start, entry))

\* deleteBookmark(index)
DeleteBookmarkAt ==
    \E index \in 0..Len(bookmarks_) : Finish(deleteBookmarkAt(Start, index))

\* deleteBookmarksInDir(node)
DeleteBookmarksInDir ==
    \E node \in LiveDirs : Finish(deleteBookmarksInDir(Start, node))

\* A registered archive, which the manager listens to, announces an event.
ArchiveAnnounces ==
    \E announcer \in RegisteredArchives, event_name \in ArchiveEvents :
        Finish(onAnnouncement(Start, announcer, event_name))

\* The auto_open_wads_root setting is changed.
SetAutoOpenWadsRoot ==
    /\ auto_open_wads_root' = ~auto_open_wads_root
    /\ UNCHANGED <<open_archives_, bookmarks_, held, resources, archive_file, ub,
                   base_resource, base_resource_archive_, base_resource_path>>

\* A caller drops an archive it opened unmanaged: the last owner is gone and
\* the archive and its entries are destroyed.  A caller keeps such an archive
\* while an archive opened from one of its entries is registered.
ReleaseArchive ==
    \E archive \in held :
        /\ \A a \in RegisteredArchives : EntryParent(parentEntry(a)) # archive
        /\ held' = held \ {archive}
        /\ bookmarks_' = ExpireEntries(bookmarks_, archive)
        /\ UNCHANGED <<open_archives_, auto_open_wads_root, resources, archive_file, ub,
                       base_resource, base_resource_archive_, base_resource_path>>

\* setArchiveResource(archive, resource)
SetArchiveResource ==
    \E archive \in ClosePtrs, resource \in BOOLEAN :
        Finish(setArchiveResource(Start, archive, resource))

\* addBaseResourcePath(path), with path drawn from paths.
AddBaseResourcePathOf(paths) ==
    \E path \in paths :
        LET st == addBaseResourcePath(Start, path) IN
        /\ \A rowid \in DOMAIN st.brp : rowid <= MaxBasePaths
        /\ Finish(st)

AddBaseResourcePath == AddBaseResourcePathOf(BasePaths)

\* addBaseResourcePath("base.wad")
AddBaseWad == AddBaseResourcePathOf({"base.wad"})

\* Paths of files that open as a base resource archive are added.
AddOpenableBasePath == AddBaseResourcePathOf({"a.pk3", "base.wad"})

\* The positions callers pass to removeBaseResourcePath.
BaseIndexes == 0..MaxBasePaths

\* removeBaseResourcePath(index)
RemoveBaseResourcePath ==
    \E index \in BaseIndexes : Finish(removeBaseResourcePath(Start, index))

\* openBaseResource(index)
OpenBaseResource ==
    \E index \in BaseIndexes \cup {-1} : Finish(openBaseResource(Start, index))

\* Opening and closing, by the manager's callers.
Next ==
    \/ OpenArchive
    \/ OpenArchiveEntry
    \/ CloseArchive
    \/ CloseArchiveFilename
    \/ CloseArchivePtr
    \/ SetAutoOpenWadsRoot
    \/ ReleaseArchive

Spec == Init /\ [][Next]_vars

\* Opening with manage = true and closing.
NextManaged ==
    \/ OpenArchiveManaged
    \/ OpenArchiveEntryManaged
    \/ CloseArchive
    \/ CloseArchiveFilename
    \/ CloseArchivePtr
    \/ SetAutoOpenWadsRoot

\* Managed opening and closing, with entries being bookmarked.
NextBookmarks == NextManaged \/ AddBookmark

SpecBookmarks == Init /\ [][NextBookmarks]_vars

\* Managed opening and closing, with the registered archives announcing
\* events.
NextAnnounces == NextManaged \/ ArchiveAnnounces

SpecAnnounces == Init /\ [][NextAnnounces]_vars

\* Managed opening and closing, with the resource flags being set and the
\* base resource archive being selected.
NextResources ==
    \/ OpenArchiveManaged
    \/ OpenArchiveEntryManaged
    \/ CloseArchive
    \/ SetArchiveResource
    \/ AddOpenableBasePath
    \/ OpenBaseResource

SpecResources == Init /\ [][NextResources]_vars

\* Archives being opened from paths and closed, with the entries of all
\* their directories being bookmarked and the bookmarks being deleted.
NextDirs ==
    \/ OpenArchiveManaged
    \/ OpenArchiveUnmanagedAlone
    \/ CloseArchive
    \/ ReleaseArchive
    \/ AddBookmarkInDirs
    \/ DeleteBookmark
    \/ DeleteBookmarkAt
    \/ DeleteBookmarksInDir

SpecDirs == Init /\ [][NextDirs]_vars

\* The base resource paths being added and removed and the base resource
\* archive being selected, with archives being opened from paths and closed.
NextBase ==
    \/ OpenArchiveManaged
    \/ CloseArchive
    \/ AddBaseResourcePath
    \/ RemoveBaseResourcePath
    \/ OpenBaseResource

SpecBase == Init /\ [][NextBase]_vars

\* Files and entries of the same content being opened and closed.
NextFormats ==
    \/ OpenFormatFile
    \/ OpenArchiveEntryManaged
    \/ CloseArchive

SpecFormats == Init /\ [][NextFormats]_vars

\* Opening, creating and closing, with a caller holding an archive.
NextNew ==
    \/ OpenArchiveManaged
    \/ OpenArchiveUnmanagedAlone
    \/ OpenArchiveEntryManaged
    \/ CallNewArchive
    \/ CloseArchive
    \/ SetAutoOpenWadsRoot

SpecNew == Init /\ [][NextNew]_vars

\* Managed opening and closing with bookmarks and a base resource archive,
\* and closeAll.
NextCloseAll ==
    \/ OpenArchiveManaged
    \/ OpenArchiveEntryManaged
    \/ AddBookmark
    \/ CloseArchive
    \/ CloseAll
    \/ AddBaseWad
    \/ OpenBaseResource

SpecCloseAll == Init /\ [][NextCloseAll]_vars

\* Managed opening and closing with bookmarks, and closes during which a
\* listener closes another archive.
NextObserved == NextBookmarks \/ CloseArchiveObserved

SpecObserved == Init /\ [][NextObserved]_vars

(***************************************************************************)
(* Properties.  Each is stated of the record an operation returns when it  *)
(* is called in a reachable state, for every argument a caller can pass;   *)
(* a call that MaxInst leaves no room for (oom) is not a call.             *)
(***************************************************************************)

\* The registered archives whose filename is file_name.
RegisteredAs(file_name) == {a \in RegisteredArchives : filename(a) = file_name}

\* The registered archives that were opened from entry.
OpenedFrom(entry) == {a \in RegisteredArchives : parentEntry(a) = entry}

\* The events of a name among those an operation announced.
Announced(st, event_name) == SelectSeq(st.ev, LAMBDA e : e.name = event_name)

\* The archives of a registry, in order.
ArchivesOf(oa) == [k \in 1..Len(oa) |-> oa[k].archive]

\* The operation left the registry, its child links, the resource index and
\* the archive_file table as they were and executed no statement.
NothingChanges(st) ==
    /\ st.oa = open_archives_
    /\ st.res = resources
    /\ st.db = archive_file
    /\ st.sql = <<>>

\* A repeated open: it returns one of the registered archives, changes
\* nothing and announces archive_opened with that archive's position,
\* unless silent.
Reopened(st, archives, silent) ==
    /\ st.archive \in archives
    /\ NothingChanges(st)
    /\ st.held = held
    /\ st.ev = IF silent THEN <<>>
               ELSE <<[name |-> "archive_opened",
                       index |-> archiveIndex(open_archives_, st.archive)]>>

\* C1: opening an identity that is already registered (the same file path,
\* the same directory path, or the same parent entry) returns the
\* registered archive itself; the registry gets no second record, no child
\* link is added, no archive is handed to the caller and no persistence
\* update is executed.
C1_ReopenReturnsRegistered ==
    /\ \A file_name \in Paths, manage \in BOOLEAN, silent \in BOOLEAN :
           RegisteredAs(file_name) # {}
               => Reopened(openArchive(Start, file_name, manage, silent),
                           RegisteredAs(file_name), silent)
    /\ \A entry \in LiveEntries, manage \in BOOLEAN, silent \in BOOLEAN :
           OpenedFrom(entry) # {}
               => Reopened(openArchiveEntry(Start, entry, manage, silent),
                           OpenedFrom(entry), silent)

\* C1 happens: an entry of a registered archive is open as its child, and
\* opening it again returns that child and announces only that it was
\* opened.
C1_Witness ==
    \E entry \in LiveEntries :
        LET st == openArchiveEntry(Start, entry, TRUE, FALSE) IN
        /\ OpenedFrom(entry) # {}
        /\ \E a \in 1..Len(open_archives_) :
               /\ open_archives_[a].archive = EntryParent(entry)
               /\ \E c \in 1..Len(open_archives_[a].open_children) :
                      open_archives_[a].open_children[c] = st.archive
        /\ Len(st.ev) = 1
        /\ st.oa = open_archives_

\* The identities whose open fails: no recognizer matches the data or the
\* codec fails to parse it.
PathOpenFails(file_name) ==
    \/ ~dirExists(file_name) /\ Recognized(PathContent(file_name)) = {}
    \/ ~ParseOK(PathContent(file_name))

EntryOpenFails(entry) ==
    \/ entry = NoEntry
    \/ Recognized(EntryContent(ArchiveContent(entry[1]), entry[2])) = {}
    \/ ~ParseOK(EntryContent(ArchiveContent(entry[1]), entry[2]))

\* A failed open: no archive, no partial state, nothing announced.
FailedOpen(st) ==
    /\ st.archive = NoArchive
    /\ NothingChanges(st)
    /\ st.held = held
    /\ st.bm = bookmarks_
    /\ st.ev = <<>>

\* C2: an open that fails, from a path or from an entry, returns no archive,
\* adds no record, no child link, no Resource Index membership and no
\* persistence row, and announces neither archive_added nor archive_opened;
\* and every open that returns no archive left the state as it was.
C2_FailedOpenNoPartialState ==
    /\ \A file_name \in Paths, manage \in BOOLEAN, silent \in BOOLEAN :
           LET st == openArchive(Start, file_name, manage, silent) IN
           ~st.oom
               => /\ (PathOpenFails(file_name) /\ RegisteredAs(file_name) = {})
                         => FailedOpen(st)
                  /\ st.archive = NoArchive => FailedOpen(st)
    /\ \A entry \in OpenEntries, manage \in BOOLEAN, silent \in BOOLEAN :
           LET st == openArchiveEntry(Start, entry, manage, silent) IN
           ~st.oom
               => /\ (EntryOpenFails(entry) /\ OpenedFrom(entry) = {})
                         => FailedOpen(st)
                  /\ st.archive = NoArchive => FailedOpen(st)

\* C2 happens: an entry of a registered archive is recognized and does not
\* parse, a path is not recognized, and the managed opens of both fail while
\* archives are registered.
C2_Witness ==
    /\ Len(open_archives_) >= 2
    /\ \E entry \in LiveEntries :
           /\ EntryParent(entry) \in RegisteredArchives
           /\ Recognized(EntryContent(ArchiveContent(entry[1]), entry[2])) # {}
           /\ ~ParseOK(EntryContent(ArchiveContent(entry[1]), entry[2]))
           /\ ~openArchiveEntry(Start, entry, TRUE, FALSE).oom
           /\ openArchiveEntry(Start, entry, TRUE, FALSE).archive = NoArchive
    /\ \E file_name \in Paths :
           /\ Recognized(PathContent(file_name)) = {}
           /\ openArchive(Start, file_name, TRUE, FALSE).archive = NoArchive

\* The registered archives nested below an archive through a chain of
\* registered parents, at any depth.
Nested(archive) ==
    {a \in RegisteredArchives :
        /\ Len(a) > Len(archive)
        /\ \A n \in Len(archive)..(Len(a) - 1) : SubSeq(a, 1, n) \in RegisteredArchives
        /\ SubSeq(a, 1, Len(archive)) = archive}

\* A close that succeeded and took from the registry exactly an archive and
\* the archives nested below it, leaving the others in their order.
ClosedWithNested(st, archive) ==
    /\ st.ok
    /\ ArchivesOf(st.oa) =
           SelectSeq(ArchivesOf(open_archives_),
                     LAMBDA a : a \notin {archive} \cup Nested(archive))

\* C3: closing a registered archive removes it and every archive nested
\* below it, at any depth, from the registry, however the archive was named
\* (index, filename or pointer); the other archives stay registered.
C3_CloseRemovesNested ==
    /\ \A index \in 0..(Len(open_archives_) - 1) :
           ClosedWithNested(closeArchive(Start, index), open_archives_[index + 1].archive)
    /\ \A file_name \in CloseFilenames :
           RegisteredAs(file_name) # {}
               => \E archive \in RegisteredAs(file_name) :
                      ClosedWithNested(closeArchiveFilename(Start, file_name), archive)
    /\ \A archive \in RegisteredArchives :
           ClosedWithNested(closeArchivePtr(Start, archive), archive)

\* C3 happens: an archive has a child and a child of that child registered,
\* next to another archive, and closing it removes the three records and
\* leaves the other.
C3_Witness ==
    \E index \in 0..(Len(open_archives_) - 1) :
        LET archive == open_archives_[index + 1].archive
            st == closeArchive(Start, index)
        IN  /\ \E a \in Nested(archive) : Len(a) = Len(archive) + 2
            /\ st.ok
            /\ Len(open_archives_) = 4
            /\ Len(st.oa) = 1

\* Every child link of a registry refers to an archive of that registry.
LinksRegistered(oa) ==
    \A a \in 1..Len(oa) :
        \A c \in 1..Len(oa[a].open_children) :
            oa[a].open_children[c] \in Registered(oa)

\* C4: in every state between operations, every child link of every record
\* refers to an archive that is registered.
C4_ChildLinksRegistered == LinksRegistered(open_archives_)

\* C4 happens: an archive links two children, and closing one of them on its
\* own leaves the parent registered with the link to the other only.
C4_Witness ==
    \E a \in 1..Len(open_archives_) :
        /\ Len(open_archives_[a].open_children) = 2
        /\ LET archive == open_archives_[a].open_children[1]
               st == closeArchivePtr(Start, archive)
           IN  /\ st.ok
               /\ st.oa[a].archive = open_archives_[a].archive
               /\ st.oa[a].open_children = <<open_archives_[a].open_children[2]>>

\* The bookmarks an operation leaves are those it found, without the ones
\* whose entry is gone or belongs to an archive or to an archive nested
\* below it.
PrunedWithNested(st, archive) ==
    /\ st.ok
    /\ st.bm = SelectSeq(bookmarks_, LAMBDA bookmark :
                   /\ ~bookmark.expired
                   /\ EntryParent(bookmark.entry) \notin {archive} \cup Nested(archive))

\* C5: after a close of a registered archive the bookmark list holds no
\* bookmark whose entry belongs to the closed archive or to an archive
\* nested below it, which was closed with it; the other bookmarks stay.
C5_ClosePrunesBookmarks ==
    /\ \A index \in 0..(Len(open_archives_) - 1) :
           PrunedWithNested(closeArchive(Start, index), open_archives_[index + 1].archive)
    /\ \A file_name \in CloseFilenames :
           RegisteredAs(file_name) # {}
               => \E archive \in RegisteredAs(file_name) :
                      PrunedWithNested(closeArchiveFilename(Start, file_name), archive)
    /\ \A archive \in RegisteredArchives :
           PrunedWithNested(closeArchivePtr(Start, archive), archive)

\* C5 happens: an entry of an archive nested below a top-level archive and
\* an entry of another archive are bookmarked, and closing the top-level
\* archive leaves the second bookmark only.
C5_Witness ==
    \E index \in 0..(Len(open_archives_) - 1) :
        LET archive == open_archives_[index + 1].archive
            st == closeArchive(Start, index)
        IN  /\ Len(bookmarks_) = 2
            /\ EntryParent(bookmarks_[1].entry) \in Nested(archive)
            /\ EntryParent(bookmarks_[2].entry) \in RegisteredArchives
            /\ st.ok
            /\ st.bm = <<bookmarks_[2]>>

\* The root entries of an archive whose detected type is wad, in order.
WadEntries(archive) ==
    SelectSeq(RootEntries(ArchiveContent(archive)),
              LAMBDA name : EntryTypeId(ArchiveContent(archive), name) = "wad")

\* Those of them that open: a recognizer matches and the codec parses.
OpenableWadEntries(archive) ==
    SelectSeq(WadEntries(archive), LAMBDA name : ~EntryOpenFails(<<archive, name>>))

\* A managed open that registered a new zip or directory archive.
OpenedNewZipOrDir(st) ==
    /\ ~st.oom
    /\ st.archive # NoArchive
    /\ st.archive \notin RegisteredArchives
    /\ st.archive \in Registered(st.oa)
    /\ formatId(st.archive) \in {"zip", "folder"}

\* The registry has gained the record of the opened archive, a resource, and
\* after it one record per name, each opened from the root entry of that
\* name and linked from the parent's record; only the parent's open is
\* announced.
AddedWithChildren(st, names, silent) ==
    LET n == Len(open_archives_) IN
    /\ Len(st.oa) = n + 1 + Len(names)
    /\ st.oa[n + 1].archive = st.archive
    /\ st.oa[n + 1].resource
    /\ st.oa[n + 1].open_children = [k \in 1..Len(names) |-> st.oa[n + 1 + k].archive]
    /\ \A k \in 1..Len(names) :
           /\ parentEntry(st.oa[n + 1 + k].archive) = <<st.archive, names[k]>>
           /\ st.oa[n + 1 + k].resource
    /\ Len(Announced(st, "archive_added")) = 1 + Len(names)
    /\ Announced(st, "archive_opened") =
           IF silent THEN <<>> ELSE <<[name |-> "archive_opened", index |-> n]>>

\* The children an open auto-opens.
AutoOpened(archive) ==
    IF auto_open_wads_root THEN OpenableWadEntries(archive) ELSE <<>>

\* C6 as stated: with the toggle enabled the registry gains the parent and
\* one record per root entry of type wad.
C6_OneRecordPerWadEntry ==
    \A file_name \in Paths, silent \in BOOLEAN :
        LET st == openArchive(Start, file_name, TRUE, silent) IN
        (OpenedNewZipOrDir(st) /\ auto_open_wads_root)
            => Len(st.oa) = Len(open_archives_) + 1 + Len(WadEntries(st.archive))

\* C6: a managed open of a new zip or directory archive with the toggle
\* enabled registers the parent, a resource, and one child per root entry
\* of type wad that opens, each linked from the parent and none announced
\* as opened; an entry of type wad that fails to open adds no record.  With
\* the toggle disabled only the parent is registered.  Closing an archive
\* closes every archive its record links.
C6_AutoOpenWads ==
    /\ \A file_name \in Paths, silent \in BOOLEAN :
           LET st == openArchive(Start, file_name, TRUE, silent) IN
           OpenedNewZipOrDir(st) => AddedWithChildren(st, AutoOpened(st.archive), silent)
    /\ \A entry \in LiveEntries, silent \in BOOLEAN :
           LET st == openArchiveEntry(Start, entry, TRUE, silent) IN
           OpenedNewZipOrDir(st) => AddedWithChildren(st, AutoOpened(st.archive), silent)
    /\ \A index \in 0..(Len(open_archives_) - 1) :
           \A c \in 1..Len(open_archives_[index + 1].open_children) :
               open_archives_[index + 1].open_children[c]
                   \notin Registered(closeArchive(Start, index).oa)

\* C6 happens: with the toggle enabled and an archive registered, a zip
\* archive with two root entries of type wad is opened, not silent; the one
\* entry that opens becomes its child and only the parent's open is
\* announced.
C6_Witness ==
    /\ auto_open_wads_root
    /\ open_archives_ # <<>>
    /\ \E file_name \in Paths :
           LET st == openArchive(Start, file_name, TRUE, FALSE) IN
           /\ OpenedNewZipOrDir(st)
           /\ formatId(st.archive) = "zip"
           /\ Len(WadEntries(st.archive)) = 2
           /\ Len(st.oa) = Len(open_archives_) + 2
           /\ Len(Announced(st, "archive_opened")) = 1

\* An open that handed a new archive to the caller and left the manager as
\* it was.
UnmanagedOpen(st) ==
    /\ st.archive # NoArchive
    /\ st.archive \notin Registered(st.oa)
    /\ st.held = held \cup {st.archive}
    /\ NothingChanges(st)
    /\ st.bm = bookmarks_
    /\ st.ev = <<>>

\* C7: a successful open with manage = false of an identity that is not
\* registered returns the parsed archive and changes nothing in the
\* manager: registry, child links, Resource Index and archive_file rows
\* are as before and no event is announced.
C7_UnmanagedOpenChangesNothing ==
    /\ \A file_name \in Paths, silent \in BOOLEAN :
           LET st == openArchive(Start, file_name, FALSE, silent) IN
           (RegisteredAs(file_name) = {} /\ ~PathOpenFails(file_name) /\ ~st.oom)
               => UnmanagedOpen(st) /\ filename(st.archive) = file_name
    /\ \A entry \in LiveEntries, silent \in BOOLEAN :
           LET st == openArchiveEntry(Start, entry, FALSE, silent) IN
           (OpenedFrom(entry) = {} /\ ~EntryOpenFails(entry) /\ ~st.oom)
               => UnmanagedOpen(st) /\ parentEntry(st.archive) = entry

\* C7 happens: with the toggle enabled, an entry of a registered archive is
\* opened unmanaged as a zip archive, which the caller holds.
C7_Witness ==
    /\ auto_open_wads_root
    /\ \E entry \in LiveEntries :
           LET st == openArchiveEntry(Start, entry, FALSE, FALSE) IN
           /\ EntryParent(entry) \in RegisteredArchives
           /\ OpenedFrom(entry) = {}
           /\ ~st.oom
           /\ st.archive \in st.held
           /\ formatId(st.archive) = "zip"

\* A managed open that created a new registry record.
OpenedNewManaged(st) ==
    /\ ~st.oom
    /\ st.archive # NoArchive
    /\ st.archive \notin RegisteredArchives
    /\ st.archive \in Registered(st.oa)

\* The operation has upserted the archive_file row of a path.
Upserted(st, file_path) ==
    /\ \E e \in 1..Len(st.sql) : st.sql[e] = file_path
    /\ \E row \in Rows(st.db) : row.path = file_path

\* The operation has upserted the row of a path, and only that: the row
\* holds the format of the archive and the rows of the other paths are as
\* before.
UpsertedOnly(st, file_path) ==
    /\ st.sql = <<file_path>>
    /\ \E row \in Rows(st.db) :
           /\ row.path = file_path
           /\ row.format_id = formatId(st.archive)
           /\ st.db[row] = 1
    /\ \A row \in Rows(archive_file) \cup Rows(st.db) :
           row.path # file_path
               => /\ row \in Rows(archive_file) /\ row \in Rows(st.db)
                  /\ st.db[row] = archive_file[row]

\* C8 as stated: every managed open that creates a record, from a path or
\* from an entry, upserts the row of the opened archive.
C8_EveryManagedOpenUpserts ==
    /\ \A file_name \in Paths, silent \in BOOLEAN :
           LET st == openArchive(Start, file_name, TRUE, silent) IN
           OpenedNewManaged(st) => Upserted(st, filename(st.archive))
    /\ \A entry \in LiveEntries, silent \in BOOLEAN :
           LET st == openArchiveEntry(Start, entry, TRUE, silent) IN
           OpenedNewManaged(st) => Upserted(st, filename(st.archive))

\* C8: a managed open from a path, of a file or of a directory, that
\* creates a record upserts the row of that path and no other; a managed
\* open from an entry executes no statement and leaves the rows as they
\* were, and so do the opens of the children a path's open auto-opens.
C8_PathOpenUpserts ==
    /\ \A file_name \in Paths, silent \in BOOLEAN :
           LET st == openArchive(Start, file_name, TRUE, silent) IN
           OpenedNewManaged(st) => UpsertedOnly(st, file_name)
    /\ \A entry \in OpenEntries, silent \in BOOLEAN :
           LET st == openArchiveEntry(Start, entry, TRUE, silent) IN
           ~st.oom => st.sql = <<>> /\ st.db = archive_file

\* C8 happens: a managed open of a directory registers it and a child it
\* auto-opens and executes the one upsert of the directory's row, next to
\* the row of another path; and a managed open of an entry registers an
\* archive and executes nothing.
C8_Witness ==
    /\ \E file_name \in Paths :
           LET st == openArchive(Start, file_name, TRUE, FALSE) IN
           /\ OpenedNewManaged(st)
           /\ dirExists(file_name)
           /\ Len(st.oa) = Len(open_archives_) + 2
           /\ st.sql = <<file_name>>
           /\ Cardinality(Rows(st.db)) = 2
    /\ \E entry \in LiveEntries :
           LET st == openArchiveEntry(Start, entry, TRUE, FALSE) IN
           /\ OpenedNewManaged(st)
           /\ st.sql = <<>>

\* C9: the archive_file table holds at most one row per path.
C9_OneRowPerPath ==
    /\ \A row \in Rows(archive_file) : archive_file[row] <= 1
    /\ \A row \in Rows(archive_file), other \in Rows(archive_file) :
           row.path = other.path => row = other

\* C9 happens: the table holds the rows of two paths and an archive opened
\* from one of them is registered; its save upserts the row of its path,
\* and the table keeps its two rows.
C9_Witness ==
    /\ Cardinality(Rows(archive_file)) = 2
    /\ \E announcer \in RegisteredArchives :
           LET st == onAnnouncement(Start, announcer, "saved") IN
           /\ parentEntry(announcer) = NoEntry
           /\ \E row \in Rows(archive_file) : row.path = filename(announcer)
           /\ st.sql = <<filename(announcer)>>
           /\ Rows(st.db) = Rows(archive_file)

\* The archives a caller can name that are not registered: none, one it
\* holds, one it opened unmanaged from a path.
UnregisteredPtrs ==
    (ClosePtrs \cup {NewArchive(LiveArchives, NoArchive, file_name, FALSE) :
                        file_name \in Paths}) \ RegisteredArchives

\* A close that was refused: it reports failure, announces nothing and
\* changes nothing.
RefusedClose(st) ==
    /\ st.ok = FALSE
    /\ st.ev = <<>>
    /\ NothingChanges(st)
    /\ st.bm = bookmarks_
    /\ st.held = held

\* C10: a close whose target is not registered (an index out of range, a
\* filename no registered archive has, a pointer that is null or not
\* registered) returns false, announces neither archive_closing nor
\* archive_closed and changes no state.
C10_CloseMissingTarget ==
    /\ \A index \in {-2, -1, Len(open_archives_), Len(open_archives_) + 1} :
           RefusedClose(closeArchive(Start, index))
    /\ \A file_name \in CloseFilenames :
           RegisteredAs(file_name) = {}
               => RefusedClose(closeArchiveFilename(Start, file_name))
    /\ \A archive \in UnregisteredPtrs :
           RefusedClose(closeArchivePtr(Start, archive))

\* C10 happens: archives are registered and an entry is bookmarked, and the
\* closes at the position after the last record, of a filename that is not
\* registered and of an archive that is not registered are refused.
C10_Witness ==
    /\ Len(open_archives_) >= 2
    /\ bookmarks_ # <<>>
    /\ ~closeArchive(Start, Len(open_archives_)).ok
    /\ \E file_name \in CloseFilenames :
           RegisteredAs(file_name) = {} /\ ~closeArchiveFilename(Start, file_name).ok
    /\ \E archive \in UnregisteredPtrs :
           archive # NoArchive /\ ~closeArchivePtr(Start, archive).ok

----------------------------------------------------------------------------
(* Resource lookups *)

\* The names callers look up.
ResourceNames == {"e1.wad", "MAP01", "in.pk3", "nothing"}

\* The options callers search with.
ResourceOptions ==
    {SearchOptions(match_name, match_type) :
        match_name \in {"", "e1.wad"}, match_type \in {"", "wad"}}

\* The registered archives whose resource flag is false.
NonResourceArchives ==
    {open_archives_[a].archive : a \in {b \in 1..Len(open_archives_) :
                                           ~open_archives_[b].resource}}

\* The archives of the entries of a vector.
ParentsOf(vec) == {EntryParent(vec[k]) : k \in 1..Len(vec)}

\* C11: whatever opens, closes and setArchiveResource calls came before,
\* getResourceEntry, findResourceEntry and findAllResourceEntries return no
\* entry of a registered archive whose resource flag is false.
C11_NoEntryOfNonResource ==
    \A ignore \in ClosePtrs :
        /\ \A name \in ResourceNames :
               EntryParent(getResourceEntry(Start, name, ignore)) \notin NonResourceArchives
        /\ \A options \in ResourceOptions :
               /\ EntryParent(findResourceEntry(Start, options, ignore))
                      \notin NonResourceArchives
               /\ ParentsOf(findAllResourceEntries(Start, options, ignore))
                      \cap NonResourceArchives = {}

\* C11 happens: the first record is an archive whose flag was set to false
\* and that has the entry e1.wad, a later record is a resource with an
\* entry of that name, and the three searches return the later record's.
C11_Witness ==
    /\ Len(open_archives_) >= 2
    /\ ~open_archives_[1].resource
    /\ archiveEntry(open_archives_[1].archive, "e1.wad") # NoEntry
    /\ \E a \in 2..Len(open_archives_) :
           LET found == <<open_archives_[a].archive, "e1.wad">> IN
           /\ open_archives_[a].resource
           /\ getResourceEntry(Start, "e1.wad", NoArchive) = found
           /\ findResourceEntry(Start, SearchOptions("e1.wad", ""), NoArchive) = found
           /\ findAllResourceEntries(Start, SearchOptions("e1.wad", ""), NoArchive)
                  = <<found>>

\* The position of the first record that is a resource, is not ignore and
\* for which Has holds; -1 when there is none.
LowestWith(Has(_), ignore) ==
    LET has == {a \in 1..Len(open_archives_) :
                   /\ open_archives_[a].resource
                   /\ open_archives_[a].archive # ignore
                   /\ Has(open_archives_[a].archive)}
    IN  IF has = {} THEN -1
        ELSE (CHOOSE a \in has : \A b \in has : a <= b) - 1

\* C12: getResourceEntry and findResourceEntry return the match of the
\* lowest-positioned resource record other than ignore that has one; the
\* base resource archive's match when no such record has one and a base
\* archive is active; nothing otherwise.
C12_LowestResourceThenBase ==
    \A ignore \in ClosePtrs :
        /\ \A name \in ResourceNames :
               LET Has(archive) == archiveEntry(archive, name) # NoEntry
                   index == LowestWith(Has, ignore)
               IN  getResourceEntry(Start, name, ignore) =
                       IF index >= 0
                       THEN <<At(open_archives_, index).archive, name>>
                       ELSE IF base_resource_archive_ # NoArchive
                                   /\ Has(base_resource_archive_)
                       THEN <<base_resource_archive_, name>>
                       ELSE NoEntry
        /\ \A options \in ResourceOptions :
               LET Has(archive) == findAll(archive, options) # <<>>
                   index == LowestWith(Has, ignore)
               IN  findResourceEntry(Start, options, ignore) =
                       IF index >= 0
                       THEN findLast(At(open_archives_, index).archive, options)
                       ELSE IF base_resource_archive_ # NoArchive
                                   /\ Has(base_resource_archive_)
                       THEN findLast(base_resource_archive_, options)
                       ELSE NoEntry

\* C12 happens: two resource records and the base resource archive have an
\* entry e1.wad and the first record's is returned, also when the second is
\* ignored, and the base archive's when both records are out of the search.
C12_Witness ==
    /\ Len(open_archives_) = 2
    /\ open_archives_[1].resource /\ open_archives_[2].resource
    /\ base_resource_archive_ # NoArchive
    /\ \A archive \in {open_archives_[1].archive, open_archives_[2].archive,
                       base_resource_archive_} :
           archiveEntry(archive, "e1.wad") # NoEntry
    /\ getResourceEntry(Start, "e1.wad", NoArchive) = <<open_archives_[1].archive, "e1.wad">>
    /\ getResourceEntry(Start, "e1.wad", open_archives_[1].archive)
           = <<open_archives_[2].archive, "e1.wad">>
    /\ findResourceEntry(Start, SearchOptions("", "wad"), NoArchive)
           = findLast(open_archives_[1].archive, SearchOptions("", "wad"))
    /\ getResourceEntry(setArchiveResource(Start, open_archives_[1].archive, FALSE),
                        "e1.wad", open_archives_[2].archive)
           = <<base_resource_archive_, "e1.wad">>

\* The place of an entry's archive in the bulk search: -1 for the base
\* resource archive, the registry position for an open archive.
SearchRank(entry) ==
    IF EntryParent(entry) = base_resource_archive_ THEN -1
    ELSE archiveIndex(open_archives_, EntryParent(entry))

\* C13: in the vector findAllResourceEntries returns, the matches of the
\* base resource archive come before those of the open archives, and those
\* of the open archives follow the registry order, archive by archive, each
\* archive's matches being all there in the archive's own order.
C13_BaseFirstThenRegistryOrder ==
    \A ignore \in ClosePtrs, options \in ResourceOptions :
        LET vec == findAllResourceEntries(Start, options, ignore) IN
        /\ \A i, j \in 1..Len(vec) : i < j => SearchRank(vec[i]) <= SearchRank(vec[j])
        /\ \A archive \in ParentsOf(vec) :
               SelectSeq(vec, LAMBDA entry : EntryParent(entry) = archive)
                   = findAll(archive, options)
        /\ \A a \in 1..Len(open_archives_) :
               (/\ open_archives_[a].resource
                /\ open_archives_[a].archive # ignore
                /\ findAll(open_archives_[a].archive, options) # <<>>)
                   => open_archives_[a].archive \in ParentsOf(vec)
        /\ (base_resource_archive_ # NoArchive
                /\ findAll(base_resource_archive_, options) # <<>>)
               => base_resource_archive_ \in ParentsOf(vec)

\* C13 happens: the base resource archive and the two resource records of
\* dir and a.pk3, registered in that order, all have entries of type wad,
\* and the vector holds the base archive's, then dir's, then a.pk3's.
C13_Witness ==
    /\ Len(open_archives_) = 2
    /\ open_archives_[1].archive = <<<<"dir", 0>>>>
    /\ open_archives_[2].archive = <<<<"a.pk3", 0>>>>
    /\ open_archives_[1].resource /\ open_archives_[2].resource
    /\ base_resource_archive_ = BaseArchive("a.pk3")
    /\ findAllResourceEntries(Start, SearchOptions("", "wad"), NoArchive)
           = <<<<base_resource_archive_, "e1.wad">>, <<base_resource_archive_, "x.wad">>,
               <<open_archives_[1].archive, "e1.wad">>,
               <<open_archives_[2].archive, "e1.wad">>,
               <<open_archives_[2].archive, "x.wad">>>>

----------------------------------------------------------------------------
(* The base resource selection *)

\* The indexes callers pass to openBaseResource.
OpenBaseIndexes == BaseIndexes \cup {-1}

\* The resource records of a registry.
ResourceRecords(oa) == {oa[a].archive : a \in {b \in 1..Len(oa) : oa[b].resource}}

\* getResourceEntry returns only entries of open resource archives.
OnlyOpenResources(st) ==
    \A name \in ResourceNames, ignore \in ClosePtrs :
        LET entry == getResourceEntry(st, name, ignore) IN
        entry # NoEntry => EntryParent(entry) \in ResourceRecords(st.oa)

\* No base resource archive is active and none is selected.
NoBaseResource(st) ==
    /\ st.bra = NoArchive
    /\ st.br = -1
    /\ \A archive \in st.res : archive \in Registered(st.oa)
    /\ OnlyOpenResources(st)

\* The base resource archive is the resource of an entry no open archive
\* has.
BaseAnswers(st) ==
    /\ st.bra # NoArchive
    /\ st.bra \in st.res
    /\ \E name \in ResourceNames :
           EntryParent(getResourceEntry(st, name, NoArchive)) = st.bra

\* C14: openBaseResource(index) with a base resource archive active and
\* index equal to base_resource returns true and changes nothing: the
\* archive object stays, the resource index, the table and the registry are
\* as before and no event is announced.
C14_ActiveIndexIsNoOp ==
    \A index \in OpenBaseIndexes :
        (base_resource_archive_ # NoArchive /\ index = base_resource)
            => LET st == openBaseResource(Start, index) IN
               /\ st.ok
               /\ st.bra = base_resource_archive_
               /\ st.freed = <<>>
               /\ st.br = base_resource
               /\ st.res = resources
               /\ st.brp = base_resource_path
               /\ st.oa = open_archives_
               /\ st.ev = <<>>

\* C14 happens: a base resource archive is active, it answers a lookup and
\* an open of its index leaves it answering.
C14_Witness ==
    /\ BaseAnswers(Start)
    /\ base_resource >= 0
    /\ open_archives_ # <<>>
    /\ LET st == openBaseResource(Start, base_resource) IN
       st.ok /\ BaseAnswers(st) /\ st.ev = <<>>

\* C15 as stated: after openBaseResource(-1), or openBaseResource of an
\* index with no stored path, no base resource archive is active,
\* base_resource is -1, base_resource_changed has been announced and
\* getResourceEntry returns only entries of open resource archives.
C15_NoPathClearsSelection ==
    \A index \in OpenBaseIndexes :
        (index = -1 \/ getBaseResourcePath(base_resource_path, index) = "")
            => LET st == openBaseResource(Start, index) IN
               /\ NoBaseResource(st)
               /\ Announced(st, "base_resource_changed") # <<>>
               /\ ~st.ub

\* C16 as stated: when the path at index is recognised as neither wad nor
\* zip, openBaseResource returns false and no base resource archive is
\* active afterwards: the one active before has been destroyed and removed
\* from the resource index.
C16_OtherFormatFails ==
    \A index \in OpenBaseIndexes :
        LET path == getBaseResourcePath(base_resource_path, index) IN
        (path # "" /\ Recognized(PathContent(path)) \cap {"wad", "zip"} = {})
            => LET st == openBaseResource(Start, index) IN
               /\ ~st.ok
               /\ st.bra = NoArchive
               /\ base_resource_archive_ # NoArchive
                      => /\ st.freed = <<base_resource_archive_>>
                         /\ base_resource_archive_ \notin st.res

\* C17: removeBaseResourcePath(i) with i equal to base_resource leaves no
\* base resource archive active and base_resource at -1, and getResourceEntry
\* returns only entries of open resource archives afterwards.
C17_RemoveActiveClears ==
    \A index \in BaseIndexes :
        index = base_resource => NoBaseResource(removeBaseResourcePath(Start, index))

\* C17 happens: the base resource archive is active and answers a lookup,
\* archives are registered, and removing the path of its index destroys it,
\* deletes the row and leaves the lookup without an answer.
C17_Witness ==
    /\ BaseAnswers(Start)
    /\ open_archives_ # <<>>
    /\ base_resource \in BaseIndexes
    /\ getBaseResourcePath(base_resource_path, base_resource) # ""
    /\ LET st == removeBaseResourcePath(Start, base_resource) IN
       /\ st.freed = <<base_resource_archive_>>
       /\ getBaseResourcePath(st.brp, base_resource) = ""
       /\ NoBaseResource(st)
       /\ \E name \in ResourceNames :
              /\ getResourceEntry(Start, name, NoArchive) # NoEntry
              /\ getResourceEntry(st, name, NoArchive) = NoEntry

\* C15 fails: base_resource addresses no row while a base resource archive
\* is active, and openBaseResource of that index returns true and keeps the
\* archive.
C15_Witness ==
    /\ base_resource_archive_ # NoArchive
    /\ base_resource >= 0
    /\ getBaseResourcePath(base_resource_path, base_resource) = ""
    /\ LET st == openBaseResource(Start, base_resource) IN
       st.ok /\ st.bra = base_resource_archive_ /\ st.ev = <<>>

\* C16 fails: base_resource addresses the row of a file of another format
\* while a base resource archive is active, and openBaseResource of that
\* index returns true and keeps the archive.
C16_Witness ==
    /\ base_resource_archive_ # NoArchive
    /\ base_resource >= 0
    /\ getBaseResourcePath(base_resource_path, base_resource) = "bad.bin"
    /\ LET st == openBaseResource(Start, base_resource) IN
       st.ok /\ st.bra = base_resource_archive_

----------------------------------------------------------------------------
(* Bookmarks and directories *)

\* The bookmarks whose entry is alive.
LiveBookmarks(bm) == SelectSeq(bm, LAMBDA weak : Lock(weak) # NoEntry)

\* The bookmarked entries that are alive, in the order of the list.
Bookmarked(bm) == [a \in 1..Len(LiveBookmarks(bm)) |-> Lock(LiveBookmarks(bm)[a])]

\* C18: no live entry is in the bookmark list twice, whatever addBookmark
\* and deleteBookmark calls came before, and addBookmark of an entry that
\* is bookmarked changes nothing and announces nothing.
C18_AddBookmarkIdempotent ==
    /\ \A a, b \in 1..Len(bookmarks_) :
           (a # b /\ Lock(bookmarks_[a]) # NoEntry)
               => Lock(bookmarks_[a]) # Lock(bookmarks_[b])
    /\ \A entry \in AllLiveEntries :
           (\E a \in 1..Len(bookmarks_) : Lock(bookmarks_[a]) = entry)
               => addBookmark(Start, entry) = Start

\* C18 happens: two entries are bookmarked; adding the first again leaves
\* the list as it is, and after the first is deleted adding it puts it once
\* at the end.
C18_Witness ==
    /\ Len(bookmarks_) = 2
    /\ Len(LiveBookmarks(bookmarks_)) = 2
    /\ LET first == Lock(bookmarks_[1])
           st == addBookmark(Start, first)
           deleted == deleteBookmark(Start, first)
       IN  /\ st.bm = bookmarks_ /\ st.ev = <<>>
           /\ deleted.ok
           /\ Bookmarked(addBookmark(deleted, first).bm) = <<Lock(bookmarks_[2]), first>>

\* The paths of a directory and of the directories it is below.
RECURSIVE SelfAndAbove(_)
SelfAndAbove(dir) == IF dir = "" THEN {""} ELSE {dir} \cup SelfAndAbove(DirParent(dir))

\* The entry is the directory's own entry or lies in the directory or in a
\* directory below it.
InSubtree(entry, node) ==
    \/ entry = dirEntry(node)
    \/ /\ EntryParent(entry) = dirArchive(node)
       /\ node[2] \in SelfAndAbove(EntryDir(entry[2]))

\* deleteBookmarksInDir(node) leaves the live bookmarks outside node's
\* subtree, in their order, and none of the subtree.
PrunesSubtree(node) ==
    Bookmarked(deleteBookmarksInDir(Start, node).bm)
        = SelectSeq(Bookmarked(bookmarks_), LAMBDA entry : ~InSubtree(entry, node))

----------------------------------------------------------------------------
(* The announcements of the registered archives *)

\* The position of a registered archive: the number of records before it.
PositionOf(archive) ==
    Cardinality({a \in 1..Len(open_archives_) :
                    \E b \in (a + 1)..Len(open_archives_) :
                        open_archives_[b].archive = archive})

\* C20: when a registered archive announces saved the manager announces
\* archive_saved with the archive's position in the registry as it is then,
\* and when it announces modified or entry_modified the manager announces
\* archive_modified with that position.
C20_ReannouncedWithPosition ==
    \A announcer \in RegisteredArchives :
        /\ onAnnouncement(Start, announcer, "saved").ev
               = <<[name |-> "archive_saved", index |-> PositionOf(announcer)]>>
        /\ \A event_name \in {"modified", "entry_modified"} :
               onAnnouncement(Start, announcer, event_name).ev
                   = <<[name |-> "archive_modified", index |-> PositionOf(announcer)]>>

\* C20 happens: a close of a record moves a later archive to a lower
\* position, and the archive's saved and modified are then announced with
\* the lower position.
C20_Witness ==
    \E index \in CloseIndexes, announcer \in RegisteredArchives :
        LET closed == closeArchive(Start, index)
            st == [closed EXCEPT !.ev = <<>>]
            before == archiveIndex(open_archives_, announcer)
            after == archiveIndex(st.oa, announcer)
        IN  /\ closed.ok
            /\ after >= 0
            /\ after < before
            /\ onAnnouncement(st, announcer, "saved").ev
                   = <<[name |-> "archive_saved", index |-> after]>>
            /\ onAnnouncement(st, announcer, "modified").ev
                   = <<[name |-> "archive_modified", index |-> after]>>

----------------------------------------------------------------------------
(* The events of a close *)

\* The positions in the events of an operation of those of a name.
EventsOf(st, event_name) == {k \in 1..Len(st.ev) : st.ev[k].name = event_name}

\* The archives a close took out of the registry.
Removed(st) == RegisteredArchives \ Registered(st.oa)

\* C21: a successful closeArchive(p) announces archive_closing with p
\* before it changes anything, and archive_closed with the same p as its last
\* event, when the record is out of the registry; the archive_closing and
\* archive_closed of every nested archive it closes lie between the two.
C21_ClosingFirstClosedLast ==
    \A index \in CloseIndexes :
        LET st == closeArchive(Start, index)
            n  == Len(st.ev)
        IN  st.ok /\ index >= 0 /\ index < Len(open_archives_) =>
                LET archive == At(open_archives_, index).archive IN
                /\ n >= 2
                /\ st.ev[1] = [name |-> "archive_closing", index |-> index]
                /\ st.seen[1] = Seen(Start)
                /\ st.ev[n] = [name |-> "archive_closed", index |-> index]
                /\ archive \notin Registered(st.seen[n].oa)
                /\ \A k \in 1..(n - 1) : archive \in Registered(st.seen[k].oa)
                /\ \A d \in Removed(st) \ {archive} :
                       \E k \in 2..(n - 1), j \in 2..(n - 1) :
                           /\ k < j
                           /\ st.ev[k].name = "archive_closing"
                           /\ At(st.seen[k].oa, st.ev[k].index).archive = d
                           /\ st.ev[j].name = "archive_closed"
                           /\ d \in Registered(st.seen[j - 1].oa)
                           /\ d \notin Registered(st.seen[j].oa)
                /\ Cardinality(EventsOf(st, "archive_closing")) = Cardinality(Removed(st))
                /\ Cardinality(EventsOf(st, "archive_closed")) = Cardinality(Removed(st))

\* C21 happens: an archive with bookmarked entries and an open nested archive
\* is closed, and the nested archive's events lie between its own.
C21_Witness ==
    \E index \in CloseIndexes :
        LET st == closeArchive(Start, index) IN
        /\ index >= 0 /\ index < Len(open_archives_)
        /\ st.ok
        /\ At(open_archives_, index).open_children # <<>>
        /\ Cardinality(Removed(st)) >= 2
        /\ st.bm # bookmarks_
        /\ Len(st.ev) >= 5
        /\ st.ev[1] = [name |-> "archive_closing", index |-> index]
        /\ st.ev[Len(st.ev)] = [name |-> "archive_closed", index |-> index]

----------------------------------------------------------------------------
(* Events of a closed archive *)

\* The state a finished operation leaves, as the next operation starts.
Returned(st) ==
    [st EXCEPT !.ev = <<>>, !.sql = <<>>, !.seen = <<>>, !.rcalls = <<>>,
               !.freed = <<>>, !.archive = NoArchive, !.ok = TRUE]

\* C22: once closeArchive has closed an archive, an event (saved, modified,
\* entry_modified) of that archive or of a nested archive closed with it
\* makes the manager announce nothing and execute no statement on
\* archive_file.
C22_ClosedArchiveIsSilent ==
    \A index \in CloseIndexes :
        LET closed == closeArchive(Start, index) IN
        closed.ok /\ index >= 0 /\ index < Len(open_archives_) =>
            \A announcer \in Removed(closed), event_name \in ArchiveEvents :
                LET st == onAnnouncement(Returned(closed), announcer, event_name) IN
                /\ st.ev = <<>>
                /\ st.sql = <<>>
                /\ st.db = closed.db
                /\ st = Returned(closed)

\* C22 happens: an archive whose saved was announced as archive_saved while
\* it was registered is closed, and its saved is then not announced.
C22_Witness ==
    \E index \in CloseIndexes :
        LET closed == closeArchive(Start, index) IN
        /\ index >= 0 /\ index < Len(open_archives_)
        /\ closed.ok
        /\ LET announcer == At(open_archives_, index).archive IN
           /\ onAnnouncement(Start, announcer, "saved").ev # <<>>
           /\ onAnnouncement(Start, announcer, "saved").sql # <<>>
           /\ announcer \notin Registered(closed.oa)
           /\ onAnnouncement(Returned(closed), announcer, "saved").ev = <<>>
           /\ onAnnouncement(Returned(closed), announcer, "modified").ev = <<>>

----------------------------------------------------------------------------
(* Bookmarks of destroyed entries *)

\* The positions of a bookmark list whose entry has been destroyed.
Expired(bm) == {a \in 1..Len(bm) : Lock(bm[a]) = NoEntry}

\* C23 as stated: after addBookmark, deleteBookmark of an entry or of a
\* position, deleteBookmarksInArchive and deleteBookmarksInDir the list holds
\* no bookmark of a destroyed entry.
C23_NoExpiredAfterMutation ==
    /\ \A entry \in AllLiveEntries :
           /\ Expired(addBookmark(Start, entry).bm) = {}
           /\ Expired(deleteBookmark(Start, entry).bm) = {}
    /\ \A index \in 0..Len(bookmarks_) :
           Expired(deleteBookmarkAt(Start, index).bm) = {}
    /\ \A archive \in LiveArchives :
           Expired(deleteBookmarksInArchive(Start, archive).bm) = {}
    /\ \A node \in LiveDirs :
           Expired(deleteBookmarksInDir(Start, node).bm) = {}

\* C23, corrected: after deleteBookmarksInArchive and deleteBookmarksInDir
\* the list holds no bookmark of a destroyed entry.  addBookmark and
\* deleteBookmark of a live entry leave the bookmarks of destroyed entries
\* in the list, and deleteBookmark of a position removes only the bookmark
\* at the position.
C23_BulkDeletesPruneExpired ==
    /\ \A archive \in LiveArchives \cup {NoArchive} :
           Expired(deleteBookmarksInArchive(Start, archive).bm) = {}
    /\ \A node \in LiveDirs :
           Expired(deleteBookmarksInDir(Start, node).bm) = {}
    /\ \A entry \in AllLiveEntries :
           /\ Cardinality(Expired(addBookmark(Start, entry).bm))
                  = Cardinality(Expired(bookmarks_))
           /\ Cardinality(Expired(deleteBookmark(Start, entry).bm))
                  = Cardinality(Expired(bookmarks_))
    /\ \A index \in 0..(Len(bookmarks_) - 1) :
           Cardinality(Expired(deleteBookmarkAt(Start, index).bm))
               = Cardinality(Expired(bookmarks_) \ {index + 1})

\* C23 happens: the list holds a bookmark of a destroyed entry;
\* deleteBookmarksInDir and deleteBookmarksInArchive erase it, and an
\* addBookmark and a deleteBookmark that change the list leave it there.
C23_Witness ==
    /\ Expired(bookmarks_) # {}
    /\ \E node \in LiveDirs :
           LET st == deleteBookmarksInDir(Start, node) IN
           st.ok /\ Expired(st.bm) = {} /\ st.bm = LiveBookmarks(bookmarks_)
    /\ \E archive \in LiveArchives :
           LET st == deleteBookmarksInArchive(Start, archive) IN
           st.ok /\ Expired(st.bm) = {}
    /\ \E entry \in AllLiveEntries :
           LET st == addBookmark(Start, entry) IN
           st.bm # bookmarks_ /\ Expired(st.bm) # {}
    /\ \E entry \in AllLiveEntries :
           LET st == deleteBookmark(Start, entry) IN
           st.ok /\ Expired(st.bm) # {}

----------------------------------------------------------------------------
(* The resource manager's archives *)

\* The archives the resource manager is to hold: the resource records of
\* the registry and the base resource archive.
ResourceIndexOf(oa, bra) ==
    ResourceRecords(oa) \cup (IF bra = NoArchive THEN {} ELSE {bra})

\* C24: between operations the resource manager holds the registered
\* archives whose resource flag is set and the active base resource archive,
\* and no other; setArchiveResource with the value the flag has calls the
\* resource manager not at all, and with the other value once.
C24_ResourceIndexFollowsFlags ==
    /\ resources = ResourceIndexOf(open_archives_, base_resource_archive_)
    /\ \A archive \in ClosePtrs, resource \in BOOLEAN :
           LET st == setArchiveResource(Start, archive, resource)
               index == archiveIndex(open_archives_, archive)
           IN  /\ st.res = ResourceIndexOf(st.oa, st.bra)
               /\ (index < 0 \/ At(open_archives_, index).resource = resource)
                      => st.rcalls = <<>> /\ st.res = resources
               /\ (index >= 0 /\ At(open_archives_, index).resource # resource)
                      => st.rcalls = <<<<IF resource THEN "addArchive" ELSE "removeArchive",
                                         archive>>>>

\* C24 happens: the resource manager holds the base resource archive and a
\* registered archive, not another registered archive whose flag is off;
\* setting a flag to the value it has calls nothing.
C24_Witness ==
    /\ base_resource_archive_ # NoArchive
    /\ base_resource_archive_ \in resources
    /\ \E a, b \in 1..Len(open_archives_) :
           /\ open_archives_[a].resource
           /\ open_archives_[a].archive \in resources
           /\ ~open_archives_[b].resource
           /\ open_archives_[b].archive \notin resources
           /\ setArchiveResource(Start, open_archives_[a].archive, TRUE).rcalls = <<>>
           /\ setArchiveResource(Start, open_archives_[b].archive, FALSE).rcalls = <<>>
           /\ setArchiveResource(Start, open_archives_[b].archive, TRUE).rcalls # <<>>

----------------------------------------------------------------------------
(* The format of a content, from a path and from an entry *)

\* The entries that hold the content of the file at a path.
SameContent(file_name) ==
    {entry \in LiveEntries :
        EntryContent(ArchiveContent(EntryParent(entry)), entry[2])
            = PathContent(file_name)}

\* C25: the recognizers are tried in the same order for a path and for an
\* entry, so a file and an entry of the same content are opened as archives
\* of the same format, or neither is opened.
C25_SameFormatFromPathAndEntry ==
    /\ PathChain = EntryChain
    /\ \A file_name \in FormatPaths :
           \A entry \in SameContent(file_name) :
               LET from_path  == openArchive(Start, file_name, TRUE, TRUE)
                   from_entry == openArchiveEntry(Start, entry, TRUE, TRUE)
               IN  ~from_path.oom /\ ~from_entry.oom =>
                       /\ from_path.archive = NoArchive <=> from_entry.archive = NoArchive
                       /\ from_path.archive # NoArchive /\ from_entry.archive # NoArchive
                              => formatId(from_path.archive) = formatId(from_entry.archive)

\* C25's case happens: the file both.dat and the entry both.dat of fmt.pk3,
\* of the same content, are both open, the file as a dat archive and the
\* entry as a lib archive; the file snd.bin is open as a pod archive and the
\* entry snd.bin of the same content does not open.
C25_Witness ==
    /\ \E a, b \in RegisteredArchives :
           /\ Len(a) = 1 /\ Len(b) = 2
           /\ ArchiveContent(a) = ArchiveContent(b)
           /\ formatId(a) = "dat"
           /\ formatId(b) = "lib"
    /\ \E a \in RegisteredArchives, entry \in LiveEntries :
           /\ Len(a) = 1
           /\ ArchiveContent(a) = EntryContent(ArchiveContent(EntryParent(entry)), entry[2])
           /\ formatId(a) = "pod"
           /\ LET st == openArchiveEntry(Start, entry, TRUE, TRUE) IN
              ~st.oom /\ st.archive = NoArchive

----------------------------------------------------------------------------
(* archive_opened *)

\* An operation that returned an archive announced archive_opened as the
\* claim says: not at all when silent, else once, as its last event, with
\* the position the archive has in the registry at that moment.
OpenedAnnounced(st, silent) ==
    LET opened == EventsOf(st, "archive_opened") IN
    IF silent THEN opened = {}
    ELSE /\ opened = {Len(st.ev)}
         /\ archiveIndex(st.oa, st.archive) >= 0
         /\ st.ev[Len(st.ev)].index = archiveIndex(st.oa, st.archive)
         /\ st.seen[Len(st.ev)].oa = st.oa

\* C26: an open with manage = true that returns an archive announces
\* archive_opened exactly when silent is false, whether the archive was
\* registered by the call or before it, and the event carries the position
\* of the archive in the registry as it is when the event is announced,
\* auto-opened children included.
C26_OpenedIffNotSilent ==
    /\ \A file_name \in Paths, silent \in BOOLEAN :
           LET st == openArchive(Start, file_name, TRUE, silent) IN
           ~st.oom /\ st.archive # NoArchive => OpenedAnnounced(st, silent)
    /\ \A entry \in OpenEntries, silent \in BOOLEAN :
           LET st == openArchiveEntry(Start, entry, TRUE, silent) IN
           ~st.oom /\ st.archive # NoArchive => OpenedAnnounced(st, silent)

\* C26 happens: an open that is not silent registers an archive and
\* auto-opens entries of it, and announces the archive's position, which is
\* not the last; a silent open of the same kind announces no archive_opened;
\* an open of a registered archive announces the position it has.
C26_Witness ==
    /\ \E file_name \in Paths :
           LET st == openArchive(Start, file_name, TRUE, FALSE)
               quiet == openArchive(Start, file_name, TRUE, TRUE)
           IN  /\ ~st.oom
               /\ st.archive \notin RegisteredArchives
               /\ Len(st.oa) >= Len(open_archives_) + 2
               /\ EventsOf(st, "archive_opened") = {Len(st.ev)}
               /\ st.ev[Len(st.ev)].index = Len(open_archives_)
               /\ quiet.oa = st.oa
               /\ EventsOf(quiet, "archive_opened") = {}
    /\ \E file_name \in Paths :
           LET st == openArchive(Start, file_name, TRUE, FALSE) IN
           /\ st.archive \in RegisteredArchives
           /\ st.ev = <<[name |-> "archive_opened",
                         index |-> archiveIndex(open_archives_, st.archive)]>>
           /\ archiveIndex(open_archives_, st.archive) < Len(open_archives_) - 1

----------------------------------------------------------------------------
(* The ignored archive *)

\* The three searches return no entry of ignore.
NothingOf(ignore) ==
    /\ \A name \in ResourceNames :
           EntryParent(getResourceEntry(Start, name, ignore)) # ignore
    /\ \A options \in ResourceOptions :
           /\ EntryParent(findResourceEntry(Start, options, ignore)) # ignore
           /\ ignore \notin ParentsOf(findAllResourceEntries(Start, options, ignore))

\* The three searches return with ignore what they return without.
IgnoredInVain(ignore) ==
    /\ \A name \in ResourceNames :
           getResourceEntry(Start, name, ignore) = getResourceEntry(Start, name, NoArchive)
    /\ \A options \in ResourceOptions :
           /\ findResourceEntry(Start, options, ignore)
                  = findResourceEntry(Start, options, NoArchive)
           /\ findAllResourceEntries(Start, options, ignore)
                  = findAllResourceEntries(Start, options, NoArchive)

\* C27 as stated: the three searches return no entry of the archive passed
\* as ignore, be it a registered archive or the base resource archive.
C27_NothingOfIgnored ==
    \A ignore \in (RegisteredArchives \cup {base_resource_archive_}) \ {NoArchive} :
        NothingOf(ignore)

\* C27, corrected: the three searches return no entry of the archive passed
\* as ignore when it is a registered archive; the base resource archive is
\* searched as if no archive had been passed when it is the one passed.
C27_NothingOfIgnoredRecord ==
    /\ \A ignore \in RegisteredArchives : NothingOf(ignore)
    /\ base_resource_archive_ # NoArchive => IgnoredInVain(base_resource_archive_)

\* C27 happens: two resource records have the entry e1.wad and with the
\* first ignored the searches return the second's; the base resource
\* archive has MAP01, which no record has, and with the base archive
\* ignored the searches return its MAP01.
C27_Witness ==
    /\ Len(open_archives_) >= 2
    /\ open_archives_[1].resource
    /\ \E a \in 2..Len(open_archives_) :
           LET ignore == open_archives_[1].archive
               found  == <<open_archives_[a].archive, "e1.wad">>
           IN  /\ getResourceEntry(Start, "e1.wad", NoArchive) = <<ignore, "e1.wad">>
               /\ getResourceEntry(Start, "e1.wad", ignore) = found
               /\ findResourceEntry(Start, SearchOptions("e1.wad", ""), ignore) = found
    /\ base_resource_archive_ # NoArchive
    /\ LET found == <<base_resource_archive_, "MAP01">> IN
       /\ getResourceEntry(Start, "MAP01", base_resource_archive_) = found
       /\ findResourceEntry(Start, SearchOptions("MAP01", ""), base_resource_archive_) = found
       /\ findAllResourceEntries(Start, SearchOptions("MAP01", ""), base_resource_archive_)
              = <<found>>

----------------------------------------------------------------------------
(* What a close leaves *)

\* The archives the records of a set of archives link to.
LinkedFrom(oa, archives) ==
    UNION {{oa[a].open_children[c] : c \in 1..Len(oa[a].open_children)} :
              a \in {b \in 1..Len(oa) : oa[b].archive \in archives}}
        \cap Registered(oa)

\* The archives reached from a set of archives over at most n child links.
RECURSIVE Reached(_, _, _)
Reached(oa, archives, n) ==
    IF n = 0 THEN archives
    ELSE Reached(oa, archives \cup LinkedFrom(oa, archives), n - 1)

\* The archive at a position with the archives nested in it.
WithDescendants(oa, index) == Reached(oa, {At(oa, index).archive}, MaxInst)

\* The records of the archives that are not in a set, in order.
Survivors(oa, archives) ==
    SelectSeq(oa, LAMBDA open_archive : open_archive.archive \notin archives)

\* The number of records before an archive's whose archive is in a set.
RemovedBefore(oa, archives, archive) ==
    Cardinality({b \in 0..(archiveIndex(oa, archive) - 1) : At(oa, b).archive \in archives})

\* C28 as stated: a successful closeArchive leaves the records of all
\* archives but the closed one and those nested in it, each as it was, in
\* the same order.
C28_CloseLeavesOthersUnchanged ==
    \A index \in 0..(Len(open_archives_) - 1) :
        LET st == closeArchive(Start, index) IN
        st.ok => st.oa = Survivors(open_archives_, WithDescendants(open_archives_, index))

\* C28, corrected: a successful closeArchive removes the records of the
\* closed archive and of the archives nested in it, and no other; the other
\* records keep their order and their resource flag, each moves down by
\* the number of removed records before it, and each keeps its child links,
\* but for the record of the archive the closed one was opened from, which
\* loses its link to the closed archive.
C28_CloseLeavesOthers ==
    \A index \in 0..(Len(open_archives_) - 1) :
        LET st == closeArchive(Start, index)
            archive == At(open_archives_, index).archive
            removed == WithDescendants(open_archives_, index)
            left == Survivors(open_archives_, removed)
            parent == EntryParent(parentEntry(archive))
        IN  st.ok =>
                /\ Registered(st.oa) = RegisteredArchives \ removed
                /\ Len(st.oa) = Len(left)
                /\ \A k \in 1..Len(left) :
                       /\ st.oa[k].archive = left[k].archive
                       /\ st.oa[k].resource = left[k].resource
                       /\ st.oa[k].open_children =
                              IF left[k].archive = parent
                              THEN SelectSeq(left[k].open_children, LAMBDA c : c # archive)
                              ELSE left[k].open_children
                       /\ archiveIndex(st.oa, left[k].archive)
                              = archiveIndex(open_archives_, left[k].archive)
                                    - RemovedBefore(open_archives_, removed, left[k].archive)

\* C28 happens: an archive with an archive nested in it is closed; the
\* record of the archive it was opened from loses one of its two links, and
\* a record behind the two removed ones moves down by two.
C28_Witness ==
    \E index \in 0..(Len(open_archives_) - 1) :
        LET st == closeArchive(Start, index)
            archive == At(open_archives_, index).archive
            removed == WithDescendants(open_archives_, index)
            pi == archiveIndex(open_archives_, EntryParent(parentEntry(archive)))
        IN  /\ st.ok
            /\ Cardinality(removed) = 2
            /\ pi >= 0
            /\ Len(At(st.oa, pi).open_children) < Len(At(open_archives_, pi).open_children)
            /\ \E a \in RegisteredArchives \ removed :
                   archiveIndex(st.oa, a) = archiveIndex(open_archives_, a) - 2

----------------------------------------------------------------------------
(* Child links and positions *)

\* The registry of closeArchive(index) when the loop over the children of
\* the record is done.
ChildrenClosed(index) ==
    CloseChildren([Start EXCEPT !.oa[index + 1].open_children = <<>>],
                  At(open_archives_, index).open_children, 1)

\* C29: whatever openArchive, newArchive and closeArchive calls came before,
\* every archive a record links to as its child is registered at a position
\* above the record's; and in closeArchive(p) the archive at position p is
\* the same after the children have been closed as before.
C29_ChildrenAfterParent ==
    /\ \A a \in 1..Len(open_archives_) :
           \A c \in 1..Len(open_archives_[a].open_children) :
               archiveIndex(open_archives_, open_archives_[a].open_children[c]) > a - 1
    /\ \A index \in 0..(Len(open_archives_) - 1) :
           LET st == ChildrenClosed(index) IN
           /\ ~st.ub
           /\ index < Len(st.oa)
           /\ At(st.oa, index).archive = At(open_archives_, index).archive
           /\ SubSeq(st.oa, 1, index) = SubSeq(open_archives_, 1, index)
           /\ ~closeArchive(Start, index).ub

\* C29 happens: a record that is not the first, behind a created archive,
\* links to two children; closing the children removes two records and
\* leaves the record where it was.
C29_Witness ==
    \E index \in 1..(Len(open_archives_) - 1) :
        LET st == ChildrenClosed(index) IN
        /\ \E a \in 1..index : open_archives_[a].archive[1][2] < -1
        /\ Len(At(open_archives_, index).open_children) = 2
        /\ Len(st.oa) = Len(open_archives_) - 2
        /\ At(st.oa, index).archive = At(open_archives_, index).archive

----------------------------------------------------------------------------
(* A close during a close *)

\* An archive with the archives nested in it.
Family(archive) == Reached(open_archives_, {archive}, MaxInst)

\* C30: closeArchive(p), during which a listener of archive_closing or of
\* bookmarks_changed closes another registered archive, removes the archive
\* that was at p when the call began and the archives nested in it, removes
\* beyond what the listener's close removes no other archive, and makes no
\* access to open_archives_ out of range.
C30_ObservedCloseRemovesTarget ==
    ~ub =>
    \A index \in 0..(Len(open_archives_) - 1), event_name \in ObservedEvents :
    \A target \in RegisteredArchives \ {At(open_archives_, index).archive} :
        LET st == closeArchiveObserved(Start, index, event_name, target)
            archive == At(open_archives_, index).archive
            observed == EventsOf(st, event_name) # {}
        IN  /\ ~st.ub
            /\ Registered(st.oa) = RegisteredArchives
                   \ (Family(archive) \cup (IF observed THEN Family(target) ELSE {}))

\* C30's cases happen: three archives are registered and a listener of
\* archive_closing closes the one at position 0, which has no child.  During
\* closeArchive(1) this makes the call remove the archive that was at
\* position 2 and leave the one that was at position 1; during
\* closeArchive(2) it makes the call read open_archives_[2] of a registry of
\* two records.
C30_Witness ==
    /\ ~ub
    /\ Len(open_archives_) = 3
    /\ open_archives_[1].open_children = <<>>
    /\ LET st == closeArchiveObserved(Start, 1, "archive_closing",
                                      open_archives_[1].archive)
       IN  /\ ~st.ub
           /\ st.ok
           /\ Registered(st.oa) = {open_archives_[2].archive}
    /\ closeArchiveObserved(Start, 2, "archive_closing", open_archives_[1].archive).ub

----------------------------------------------------------------------------
(* base_resource_changed *)

\* An openBaseResource call has changed which base resource archive is
\* active: it has destroyed the one that was, or made one.
BaseChanged(st) == st.freed # <<>> \/ st.bra # base_resource_archive_

\* C31: every openBaseResource call that changes which base resource
\* archive is active, be it to another archive or from an archive to none
\* when the open fails, announces base_resource_changed.
C31_BaseChangeAnnounced ==
    \A index \in OpenBaseIndexes :
        LET st == openBaseResource(Start, index) IN
        BaseChanged(st) => EventsOf(st, "base_resource_changed") # {}

\* C31's case happens: a base resource archive is active and
\* openBaseResource is called with the index of a path that neither the wad
\* nor the zip recognizer accepts; the active archive is destroyed, none is
\* active afterwards and nothing has been announced.
C31_Witness ==
    /\ base_resource_archive_ # NoArchive
    /\ \E index \in BaseIndexes :
           LET st == openBaseResource(Start, index) IN
           /\ getBaseResourcePath(base_resource_path, index) = "bad.bin"
           /\ ~st.ok
           /\ st.freed = <<base_resource_archive_>>
           /\ st.bra = NoArchive
           /\ base_resource_archive_ \notin st.res
           /\ st.ev = <<>>

----------------------------------------------------------------------------
(* The selection index after a removal *)

\* The path the active base resource archive was opened from.
ActivePath(bra) == bra[1][1]

\* A base resource archive is active and base_resource is the index of the
\* path it was opened from.
SelectionNamesActive(st) ==
    /\ st.bra # NoArchive
    /\ st.br >= 0
    /\ getBaseResourcePath(st.brp, st.br) = ActivePath(st.bra)

\* C32: when base_resource is the index of the active base resource
\* archive's path, removeBaseResourcePath(i) with i below base_resource
\* keeps the archive active, lowers base_resource by one and leaves it the
\* index of the archive's path; with i above base_resource it leaves
\* base_resource and the archive as they are.
C32_RemovalKeepsSelection ==
    SelectionNamesActive(Start) =>
        \A index \in BaseIndexes :
            LET st == removeBaseResourcePath(Start, index) IN
            /\ index < base_resource =>
                   /\ st.bra = base_resource_archive_
                   /\ st.freed = <<>>
                   /\ st.br = base_resource - 1
                   /\ SelectionNamesActive(st)
            /\ index > base_resource =>
                   /\ st.bra = base_resource_archive_
                   /\ st.freed = <<>>
                   /\ st.br = base_resource
                   /\ SelectionNamesActive(st)

\* C32's case happens: the table holds a.pk3 and base.wad in its first two
\* rows, base.wad is active and base_resource is 1; after
\* removeBaseResourcePath(0) base.wad is still active and base_resource is
\* 0, and getBaseResourcePath(0) returns no path, while base.wad is what
\* getBaseResourcePath(1) returns.
C32_Witness ==
    /\ SelectionNamesActive(Start)
    /\ base_resource = 1
    /\ getBaseResourcePath(base_resource_path, 0) = "a.pk3"
    /\ ActivePath(base_resource_archive_) = "base.wad"
    /\ LET st == removeBaseResourcePath(Start, 0) IN
       /\ st.bra = base_resource_archive_
       /\ st.br = 0
       /\ getBaseResourcePath(st.brp, 0) = ""
       /\ getBaseResourcePath(st.brp, 1) = "base.wad"
       /\ EventsOf(st, "base_resource_path_removed") # {}

----------------------------------------------------------------------------
(* closeAll *)

\* The closeArchive(0) calls of closeAll: their archive_closing carries 0,
\* that of a nested close the position of a child, which is above 0.
CallsOfCloseAll(st) ==
    {k \in EventsOf(st, "archive_closing") : st.ev[k].index = 0}

\* C33: closeAll comes to an end from every registry, with nested archives
\* or without: closeArchive(0) of a registry that is not empty removes at
\* least one record, so closeAll makes no more calls than there are
\* records; when it returns the registry is empty, no bookmark of an entry
\* of an archive that was registered is left, the resource manager holds
\* the base resource archive only, and the base resource archive, the
\* selection index and the stored paths are as they were.
C33_CloseAllEmptiesRegistry ==
    /\ open_archives_ # <<>> =>
           LET st == closeArchive(Start, 0) IN
           st.ok /\ ~st.ub /\ Len(st.oa) < Len(open_archives_)
    /\ LET st == closeAll(Start) IN
       /\ ~st.ub
       /\ st.oa = <<>>
       /\ Cardinality(CallsOfCloseAll(st)) <= Len(open_archives_)
       /\ Cardinality(EventsOf(st, "archive_closed")) = Len(open_archives_)
       /\ \A k \in 1..Len(st.bm) :
              Lock(st.bm[k]) # NoEntry
                  => EntryParent(Lock(st.bm[k])) \notin RegisteredArchives
       /\ open_archives_ # <<>> => Expired(st.bm) = {}
       /\ st.held = held
       /\ st.res = ResourceIndexOf(<<>>, base_resource_archive_)
       /\ st.bra = base_resource_archive_
       /\ st.br = base_resource
       /\ st.brp = base_resource_path
       /\ st.freed = <<>>
       /\ EventsOf(st, "base_resource_changed") = {}

\* C33 happens: four archives are registered, one nested in another, entries
\* of them are bookmarked and a base resource archive is active; closeAll
\* empties the registry and the bookmarks with fewer calls of closeArchive(0)
\* than there were records and leaves the base resource archive.
C33_Witness ==
    LET st == closeAll(Start) IN
    /\ Len(open_archives_) = 4
    /\ \E a \in 1..4 : open_archives_[a].open_children # <<>>
    /\ bookmarks_ # <<>>
    /\ base_resource_archive_ # NoArchive
    /\ st.oa = <<>>
    /\ st.bm = <<>>
    /\ Cardinality(CallsOfCloseAll(st)) < 4
    /\ st.bra = base_resource_archive_
    /\ st.res = {base_resource_archive_}

-----------------------------------------------------------------------------
(* Child links and getDependentArchives *)

\* The positions in the child list of an archive's record that hold child.
LinksTo(archive, child) ==
    LET open_children == At(open_archives_, archiveIndex(open_archives_, archive)).open_children
    IN  {c \in 1..Len(open_children) : open_children[c] = child}

\* The elements of a sequence.
Range(seq) == {seq[k] : k \in 1..Len(seq)}

\* C34: whatever openArchive, newArchive and closeArchive calls came before,
\* every registered archive that was opened from an entry of a registered
\* archive is exactly once in the child list of that archive's record, and
\* getDependentArchives of a registered archive returns, each once and
\* without an access out of range, exactly the registered archives nested
\* below it at any depth.
C34_DependentsAreNested ==
    /\ \A a \in RegisteredArchives :
           EntryParent(parentEntry(a)) \in RegisteredArchives
               => Cardinality(LinksTo(EntryParent(parentEntry(a)), a)) = 1
    /\ \A archive \in RegisteredArchives :
           LET r == getDependentArchives(Start, archive) IN
           /\ ~r.ub
           /\ Range(r.vec) = Nested(archive)
           /\ Len(r.vec) = Cardinality(Nested(archive))

\* C34 happens: an archive is registered with an archive opened from one of
\* its entries and an archive opened from an entry of that one, and
\* getDependentArchives of the first returns the two, the nearer first.
C34_Witness ==
    \E archive \in RegisteredArchives :
        LET r == getDependentArchives(Start, archive) IN
        /\ Len(r.vec) = 2
        /\ parentEntry(r.vec[1]) \in EntriesOf(archive)
        /\ parentEntry(r.vec[2]) \in EntriesOf(r.vec[1])
        /\ getDependentArchives(Start, r.vec[1]).vec = <<r.vec[2]>>
        /\ getDependentArchives(Start, r.vec[2]).vec = <<>>

====
